---- MODULE Spec2Model ----
(***************************************************************************)
(* pixel-perfect: the browser session pool (BrowserManager), the capture   *)
(* pipeline (ScreenshotManager, in its multi-browser and its retrying      *)
(* iteration) and the orchestrator (PixelPerfect), as one state machine.   *)
(*                                                                         *)
(* Execution model: Node's event loop.  An action that completes an        *)
(* asynchronous operation (a launch, a navigation, a close ...) is a       *)
(* macrotask and is taken only when no continuation is pending; the        *)
(* variable micro names the continuation that runs next (the part of an    *)
(* async function after its await), which nothing can interleave with.     *)
(***************************************************************************)
EXTENDS Integers, Sequences, FiniteSets, TLC

\* ------------------------------------------------------------------ bounds
MaxDevices == 3
MaxTargets == 4
MaxParallel == 2
MaxWorkflows == 2
MaxPoolOps == 5
MaxOrchDevices == 2
MaxScenarioDevices == 1
MaxWidth == 2
MaxHeight == 1
MaxPixel == 2
MaxThreshold == 1
MaxReport == 2
MaxCompare == 2
MaxNames == 2
MaxNameLen == 2
MaxLoop == 5

\* ------------------------------------------------------- program constants
NavRetriesOneMore == 3 + 1
NavRetries == 3
DefaultMaxParallel == 3
DefaultBrowserTypes == <<"chromium">>

DeviceNames == <<"Desktop", "iPhone 12">>
BrowserType == {"chromium", "firefox", "webkit"}
EngineLists == {<<"chromium">>, <<"chromium", "firefox">>}
PoolEngines == {"chromium", "firefox"}

RECURSIVE SeqsUpTo(_, _)
SeqsUpTo(S, n) ==
  IF n = 0 THEN {<<>>}
  ELSE LET shorter == SeqsUpTo(S, n - 1)
       IN shorter \cup {Append(s, x) : s \in shorter, x \in S}

\* Device lists, duplicates included.  The code never looks inside a name, so
\* of the lists that differ only by renaming the devices one is kept: the one
\* whose names first appear in the order of DeviceNames.
Canonical(s) ==
  \A i \in 1..Len(s) : \A k \in 2..Len(DeviceNames) :
    s[i] = DeviceNames[k] => \E j \in 1..(i - 1) : s[j] = DeviceNames[k - 1]
DeviceLists ==
  {s \in SeqsUpTo({DeviceNames[k] : k \in 1..Len(DeviceNames)}, MaxDevices) : Canonical(s)}

Min(a, b) == IF a < b THEN a ELSE b

VARIABLES
  impl, devices, browserTypes, maxParallelBrowsers,
  browsers, contexts, openHandles, nextHandle, pendingLaunch, orphans, relaunched,
  initPc, initAwait,
  cleanupPc, cleanupIdx, cleanupHandle, cleanupStart, closeAttempted, closeFailed,
  csPc, csCall, batchNo, screenshots,
  tpc, tctx, tpage, retries, terr, gotoCalls, gotoFails, backoffs,
  wf, wfPc, wfCount, wfCleanups, wfError, wfHandles, moveIdx,
  poolCall, poolArg, poolOps, epochReturns, askedAfterReturn, cacheHit,
  micro,
  dimpl, options, filepath, current, baseline, aaPixels,
  dPc, currentImage, baselineImage, diffPixels, diffImage, diffResult,
  diffError, decodedFiles, writtenFiles,
  rKind, rScreenshots, rDiffs, rPc, report,
  device, cmpScreenshots, cmpPc, cmpIdx, cmpDiffs,
  cliEntry, cliCommand, cliPc, cliError, exitCode,
  dmImpl, dmEntry, deviceNames, configDevices, dmDevices, dmPc, dmError, dmLaunched,
  files, wfDiffs, wfReport, afterBaseline,
  pImpl, pTargets, pShots, pMoved, pLooked, pPc,
  ppConfig,
  bDevices, bSize, bI, bBatches, bPc

\* the Diff Engine: its inputs and the state of one compare() call
diffInputs == <<dimpl, options, device, filepath, current, baseline, aaPixels>>
diffVars == <<diffInputs, dPc, currentImage, baselineImage, diffPixels, diffImage,
              diffResult, diffError, decodedFiles, writtenFiles>>
\* what no step of the capture pipeline, the pool or the orchestrator changes
\* report generation: its arguments and the state of one call
reportVars == <<rKind, rScreenshots, rDiffs, rPc, report>>
\* DiffManager.compare: its argument, its loop and the list it builds
compareVars == <<cmpScreenshots, cmpPc, cmpIdx, cmpDiffs>>
\* a command of a CLI entry point and the exit status of the process
cliVars == <<cliEntry, cliCommand, cliPc, cliError, exitCode>>
\* device resolution: the names asked for, config.devices, the DeviceManager
dmVars == <<dmImpl, dmEntry, deviceNames, configDevices, dmDevices, dmPc, dmError,
            dmLaunched>>
\* file paths: two targets, the paths their captures write, the paths
\* updateBaseline moves them to and the paths compareScreenshot looks up
pathVars == <<pImpl, pTargets, pShots, pMoved, pLooked, pPc>>
\* the loop of createBatches: its arguments, its index and the batches pushed
batchVars == <<bDevices, bSize, bI, bBatches, bPc>>
extraVars == <<pathVars, ppConfig, batchVars>>
\* the output directory, and what a workflow of the orchestrator worked out
fsVars == <<files, wfDiffs, wfReport, afterBaseline>>
configVars == <<impl, devices, browserTypes, maxParallelBrowsers, diffVars, reportVars,
                compareVars, cliVars, dmVars, extraVars>>
inputVars == <<configVars, fsVars>>
poolVars == <<browsers, contexts, openHandles, nextHandle, pendingLaunch, orphans, relaunched>>
initVars == <<initPc, initAwait>>
cleanVars == <<cleanupPc, cleanupIdx, cleanupHandle, cleanupStart, closeAttempted, closeFailed>>
csVars == <<csPc, csCall, batchNo, screenshots>>
procVars == <<tpc, tctx, tpage, retries, terr, gotoCalls, gotoFails, backoffs>>
wfVars == <<wf, wfPc, wfCount, wfCleanups, wfError, wfHandles, moveIdx>>
clientVars == <<poolCall, poolArg, poolOps, epochReturns, askedAfterReturn, cacheHit>>
vars == <<inputVars, poolVars, initVars, cleanVars, csVars, procVars, wfVars, clientVars, micro>>

\* ------------------------------------------------------------- Map helpers
\* browsers: Map<BrowserType, Browser>, kept in insertion order as <<type, handle>>
MapHas(m, k) == \E i \in 1..Len(m) : m[i][1] = k
MapGet(m, k) == m[CHOOSE i \in 1..Len(m) : m[i][1] = k][2]
MapSet(m, k, v) ==
  IF MapHas(m, k)
  THEN [i \in 1..Len(m) |-> IF m[i][1] = k THEN <<k, v>> ELSE m[i]]
  ELSE Append(m, <<k, v>>)

\* contexts: Map<string, BrowserContext>, never iterated: a set of <<key, context>>
CacheHas(k) == \E e \in contexts : e[1] = k
CacheGet(k) == (CHOOSE e \in contexts : e[1] = k)[2]
CacheSet(k, c) == {e \in contexts : e[1] # k} \cup {<<k, c>>}

NoCtx == <<0, 0>>

\* `${browserType}-${device.name}`
ContextKeyNameOnly(browserType, name) == <<name>>
ContextKey(browserType, name) == <<browserType, "-", name>>

CreateContextNoCheck(browserType, name) ==
  IF CacheHas(ContextKey(browserType, name)) THEN "hit" ELSE "miss"

\* BrowserManager.createContext up to its first await: no browser of that type ->
\* throws; a cached context under the key -> returned; else browser.newContext()
CreateContextSync(browserType, name) ==
  IF ~MapHas(browsers, browserType) THEN "throw"
  ELSE IF CacheHas(ContextKey(browserType, name)) THEN "hit"
  ELSE "miss"

\* ------------------------------------------------------------------ targets
NE == Len(browserTypes)
Targets == 1..(Len(devices) * NE)
Procs == (1..MaxWorkflows) \X Targets
DevIdx(t) == ((t - 1) \div NE) + 1
TDevice(t) == devices[DevIdx(t)]
TBrowser(t) == browserTypes[((t - 1) % NE) + 1]

\* createBatches(devices, batchSize), batchSize >= 1
CreateFullBatches(devs, batchSize) ==
  [b \in 1..(Len(devs) \div batchSize) |->
     SubSeq(devs, (b - 1) * batchSize + 1, b * batchSize)]
CreateBatches(devs, batchSize) ==
  [b \in 1..((Len(devs) + batchSize - 1) \div batchSize) |->
     SubSeq(devs, (b - 1) * batchSize + 1, Min(b * batchSize, Len(devs)))]
NumBatches == Len(CreateBatches(devices, maxParallelBrowsers))
BatchDevIdx(b) ==
  LET first == (b - 1) * maxParallelBrowsers
      size == Len(CreateBatches(devices, maxParallelBrowsers)[b])
  IN (first + 1)..(first + size)
\* batch.flatMap(device => browserTypes.map(...)): the targets of batch b
BatchTargets(b) ==
  IF b \in 1..NumBatches
  THEN LET members == BatchDevIdx(b) IN {t \in Targets : DevIdx(t) \in members}
  ELSE {}
BatchOf(t) == CHOOSE b \in 1..NumBatches : DevIdx(t) \in BatchDevIdx(b)
BatchMembers(c, b) == {<<c, t>> : t \in BatchTargets(b)}

Settled(p) == tpc[p] \in {"fulfilled", "rejected"}
InFlight(p) == tpc[p] \notin {"none", "fulfilled", "rejected"}

\* the promise captureScreenshots holds for a target: the retrying iteration
\* wraps it in .catch(...) => null, the multi-browser one does not
MemberPromise(p) ==
  CASE tpc[p] = "fulfilled" -> "fulfilled"
    [] tpc[p] = "rejected" -> IF impl = "retry" THEN "fulfilled" ELSE "rejected"
    [] OTHER -> "pending"

PromiseRace(ms) ==
  IF \E m \in ms : MemberPromise(m) = "rejected" THEN "rejected"
  ELSE IF ms = {} \/ \E m \in ms : MemberPromise(m) = "fulfilled" THEN "fulfilled"
  ELSE "pending"
\* await Promise.all(batchPromises)
PromiseAll(ms) ==
  IF \E m \in ms : MemberPromise(m) = "rejected" THEN "rejected"
  ELSE IF \A m \in ms : MemberPromise(m) = "fulfilled" THEN "fulfilled"
  ELSE "pending"

Record(t) == [device |-> TDevice(t), browser |-> TBrowser(t)]

RECURSIVE RecordsFrom(_, _, _)
\* the records of the fulfilled targets among first..last, in target order
RecordsFrom(c, first, last) ==
  IF first > last THEN <<>>
  ELSE (IF first \in BatchTargets(batchNo) /\ tpc[<<c, first>>] = "fulfilled"
        THEN <<Record(first)>> ELSE <<>>) \o RecordsFrom(c, first + 1, last)
BatchRecordsReversed(c) ==
  LET records == RecordsFrom(c, 1, Len(devices) * NE)
  IN [i \in 1..Len(records) |-> records[Len(records) + 1 - i]]
\* what `await Promise.all(batchPromises)` gives, nulls filtered out: the
\* results in the order of the promises, whatever the order they settled in
BatchRecords(c) == RecordsFrom(c, 1, Len(devices) * NE)

\* who awaits captureScreenshots / initialize / cleanup: the workflow, if one runs
Notify(stage) == IF wfPc = stage THEN "wf" ELSE "none"

\* ------------------------------------------------- ScreenshotManager.initialize
\* Promise.all(browserTypes.map(type => this.browserManager.initializeBrowser(type))):
\* every launch is issued before the first await
InitializeBegin(types) ==
  /\ pendingLaunch' = pendingLaunch \cup
        {[id |-> nextHandle + i - 1, type |-> types[i]] : i \in 1..Len(types)}
  /\ initAwait' = {nextHandle + i - 1 : i \in 1..Len(types)}
  /\ nextHandle' = nextHandle + Len(types)
  /\ initPc' = "running"
  /\ relaunched' = (relaunched \/ \E i \in 1..Len(types) : MapHas(browsers, types[i]))

InitializeCall ==
  /\ micro = "none" /\ wf = "none" /\ poolCall = "none"
  /\ initPc = "idle" /\ csPc = "idle"
  /\ InitializeBegin(browserTypes)
  /\ UNCHANGED <<inputVars, browsers, contexts, openHandles, orphans, cleanVars,
                 csVars, procVars, wfVars, clientVars, micro>>

\* BrowserManager.initializeBrowser after `await <engine>.launch(...)`
LaunchDone(l, ok) ==
  /\ micro = "none"
  /\ l \in pendingLaunch
  /\ pendingLaunch' = pendingLaunch \ {l}
  /\ IF ok
     THEN /\ browsers' = MapSet(browsers, l.type, l.id)
          /\ openHandles' = openHandles \cup {l.id}
          /\ orphans' = IF MapHas(browsers, l.type) /\ MapGet(browsers, l.type) \in openHandles
                        THEN orphans \cup {MapGet(browsers, l.type)} ELSE orphans
     ELSE UNCHANGED <<browsers, openHandles, orphans>>
  /\ IF initPc = "running" /\ l.id \in initAwait
     THEN /\ initPc' = IF ~ok THEN "rejected"
                       ELSE IF \E o \in pendingLaunch \ {l} : o.id \in initAwait
                            THEN "running" ELSE "resolved"
          /\ micro' = IF initPc' = "running" THEN "none"
                      ELSE IF poolCall # "none" THEN "client" ELSE Notify("init")
     ELSE UNCHANGED <<initPc, micro>>
  /\ UNCHANGED <<inputVars, contexts, nextHandle, relaunched, initAwait, cleanVars,
                 csVars, procVars, wfVars, clientVars>>

\* --------------------------------------------- ScreenshotManager.captureScreenshots
CaptureScreenshotsBegin ==
  /\ csCall' = csCall + 1
  /\ csPc' = "running"
  /\ batchNo' = 0
  /\ screenshots' = <<>>

CaptureScreenshotsCall ==
  /\ micro = "none" /\ wf = "none" /\ poolCall = "none"
  /\ csPc = "idle" /\ initPc # "running" /\ pendingLaunch = {}
  /\ CaptureScreenshotsBegin
  /\ micro' = "loop"
  /\ UNCHANGED <<inputVars, poolVars, initVars, cleanVars, procVars, wfVars, clientVars>>

\* the synchronous start of captureScreenshot / createContext for target t:
\* no browser -> throws; cached context -> context.newPage(); else browser.newContext()
StartPc(t) ==
  CASE CreateContextSync(TBrowser(t), TDevice(t)) = "throw" -> "rejected"
    [] CreateContextSync(TBrowser(t), TDevice(t)) = "hit" -> "newPage"
    [] OTHER -> "newContext"

\* for (const batch of batches) { batch.flatMap(...) }: every target of the next batch starts
StartBatch ==
  /\ micro = "loop"
  /\ batchNo + 1 <= NumBatches
  /\ batchNo' = batchNo + 1
  /\ tpc' = [p \in Procs |->
       IF p \in BatchMembers(csCall, batchNo + 1) THEN StartPc(p[2]) ELSE tpc[p]]
  /\ tctx' = [p \in Procs |->
       IF p \in BatchMembers(csCall, batchNo + 1) /\ StartPc(p[2]) = "newPage"
       THEN CacheGet(ContextKey(TBrowser(p[2]), TDevice(p[2]))) ELSE tctx[p]]
  /\ micro' = "batch"
  /\ UNCHANGED <<inputVars, poolVars, initVars, cleanVars, csPc, csCall, screenshots,
                 tpage, retries, terr, gotoCalls, gotoFails, backoffs, wfVars, clientVars>>

\* the loop is over: return screenshots
CaptureReturn ==
  /\ micro = "loop"
  /\ batchNo + 1 > NumBatches
  /\ csPc' = "returned"
  /\ micro' = Notify("capture")
  /\ UNCHANGED <<inputVars, poolVars, initVars, cleanVars, csCall, batchNo, screenshots,
                 procVars, wfVars, clientVars>>

\* the continuation of `await Promise.all(batchPromises)`
BatchSettled ==
  /\ micro = "batch"
  /\ LET all == PromiseAll(BatchMembers(csCall, batchNo))
     IN /\ csPc' = IF all = "rejected" THEN "thrown" ELSE csPc
        /\ screenshots' = IF all = "fulfilled" THEN screenshots \o BatchRecords(csCall)
                          ELSE screenshots
        /\ micro' = CASE all = "fulfilled" -> "loop"
                      [] all = "rejected" -> Notify("capture")
                      [] OTHER -> "none"
  /\ UNCHANGED <<inputVars, poolVars, initVars, cleanVars, csCall, batchNo,
                 procVars, wfVars, clientVars>>

\* ------------------------------------------------------------ the output directory
\* a file: its directory ("out" is outputDir, "baseline" is outputDir/baseline),
\* its name (one per device and browser), its pixels ("old": an earlier
\* rendering of the page, "new": the rendering of the page as it is) and the
\* captureScreenshots call that wrote it (0: it was there from the start)
FileAt(fs, dir, name) == {f \in fs : f.dir = dir /\ f.name = name}

\* page.screenshot({ path }): the file is created or replaced
WriteFile(fs, dir, name, pixels, by) ==
  (fs \ FileAt(fs, dir, name))
    \cup {[dir |-> dir, name |-> name, pixels |-> pixels, by |-> by]}

\* fs.rename fails if there is nothing at the old path
RenameFails(fs, name) == FileAt(fs, "out", name) = {}

RenameUnlessPresent(fs, name) ==
  LET moved == CHOOSE f \in FileAt(fs, "out", name) : TRUE
  IN IF FileAt(fs, "baseline", name) # {}
     THEN fs \ FileAt(fs, "out", name)
     ELSE WriteFile(fs \ FileAt(fs, "out", name), "baseline", name, moved.pixels, moved.by)
\* fs.rename(screenshot.filepath, path.join(baselineDir, path.basename(filepath))):
\* the file leaves outputDir and replaces what outputDir/baseline held under
\* its name
RenameFile(fs, name) ==
  LET moved == CHOOSE f \in FileAt(fs, "out", name) : TRUE
  IN WriteFile(fs \ FileAt(fs, "out", name), "baseline", name, moved.pixels, moved.by)

\* DiffManager.compareScreenshot on the files: no baseline, no difference; a
\* current file that cannot be decoded throws; an earlier rendering differs
\* from the page as it is by more than the threshold
CompareThrows(fs, shots) ==
  \E i \in 1..Len(shots) :
    FileAt(fs, "baseline", shots[i]) # {} /\ FileAt(fs, "out", shots[i]) = {}
CompareFiles(fs, shots) ==
  [i \in 1..Len(shots) |->
     /\ FileAt(fs, "baseline", shots[i]) # {}
     /\ \E b \in FileAt(fs, "baseline", shots[i]), c \in FileAt(fs, "out", shots[i]) :
          b.pixels # c.pixels]

\* a baseline file no device of the catalog gives its name to
OtherFile == [device |-> "Tablet", browser |-> "chromium"]
\* the output directory of an earlier version of the page: a baseline for
\* every device, and one more
OldBaselines ==
  {[dir |-> "baseline", name |-> [device |-> DeviceNames[k], browser |-> "chromium"],
    pixels |-> "old", by |-> 0] : k \in 1..Len(DeviceNames)}
    \cup {[dir |-> "baseline", name |-> OtherFile, pixels |-> "old", by |-> 0]}
NoReportYet == 0 - 1

\* an empty output directory, no workflow
FsIdle ==
  /\ files = {} /\ wfDiffs = <<>> /\ wfReport = NoReportYet /\ afterBaseline = FALSE

\* ----------------------------------------------- ScreenshotManager.captureScreenshot
\* a target settled: Promise.all of the running call looks at its batch again
SettleMicro(p) == IF csPc = "running" /\ p[1] = csCall THEN "batch" ELSE "none"

TargetFrame == UNCHANGED <<inputVars, browsers, openHandles, nextHandle, pendingLaunch,
                           orphans, relaunched, initVars, cleanVars, csVars, wfVars, clientVars>>

\* BrowserManager.createContext after `await browser.newContext(...)`
NewContextDone(p, ok) ==
  /\ micro = "none"
  /\ tpc[p] = "newContext"
  /\ IF ok
     THEN /\ contexts' = CacheSet(ContextKey(TBrowser(p[2]), TDevice(p[2])), p)
          /\ tctx' = [tctx EXCEPT ![p] = p]
          /\ tpc' = [tpc EXCEPT ![p] = "newPage"]
          /\ micro' = "none"
     ELSE /\ tpc' = [tpc EXCEPT ![p] = "rejected"]
          /\ micro' = SettleMicro(p)
          /\ UNCHANGED <<contexts, tctx>>
  /\ UNCHANGED <<tpage, retries, terr, gotoCalls, gotoFails, backoffs>>
  /\ TargetFrame

\* after `await context.newPage()`: the first page.goto is issued
NewPageDone(p, ok) ==
  /\ micro = "none"
  /\ tpc[p] = "newPage"
  /\ IF ok
     THEN /\ tpage' = [tpage EXCEPT ![p] = "open"]
          /\ tpc' = [tpc EXCEPT ![p] = "goto"]
          /\ retries' = [retries EXCEPT ![p] = IF impl = "retry" THEN NavRetries ELSE @]
          /\ gotoCalls' = [gotoCalls EXCEPT ![p] = 1]
          /\ micro' = "none"
     ELSE /\ tpc' = [tpc EXCEPT ![p] = "rejected"]
          /\ micro' = SettleMicro(p)
          /\ UNCHANGED <<tpage, retries, gotoCalls>>
  /\ UNCHANGED <<contexts, tctx, terr, gotoFails, backoffs>>
  /\ TargetFrame

\* after `await page.goto(url, ...)`
GotoDone(p, ok) ==
  /\ micro = "none"
  /\ tpc[p] = "goto"
  /\ gotoFails' = [gotoFails EXCEPT ![p] = IF ok THEN @ ELSE @ + 1]
  /\ IF impl = "retry"
     THEN IF ok
          THEN /\ tpc' = [tpc EXCEPT ![p] = "netidle"]
               /\ UNCHANGED <<retries, terr>>
          ELSE /\ retries' = [retries EXCEPT ![p] = @ - 1]
               /\ tpc' = [tpc EXCEPT ![p] = IF retries[p] - 1 = 0 THEN "close" ELSE "backoff"]
               /\ terr' = [terr EXCEPT ![p] = (retries[p] - 1 = 0)]
     ELSE /\ tpc' = [tpc EXCEPT ![p] = IF ok THEN "settle" ELSE "rejected"]
          /\ UNCHANGED <<retries, terr>>
  /\ micro' = IF tpc'[p] = "rejected" THEN SettleMicro(p) ELSE "none"
  /\ UNCHANGED <<contexts, tctx, tpage, gotoCalls, backoffs>>
  /\ TargetFrame

\* multi-browser: `await page.goto(url, { waitUntil: "networkidle" })` waits for
\* the network to be idle inside the navigation; the document loaded but the
\* network did not become idle before the timeout: goto rejects
GotoIdleTimeout(p) ==
  /\ impl = "multi"
  /\ GotoDone(p, FALSE)

\* after `await new Promise(resolve => setTimeout(resolve, 2000))`: the loop tries again
BackoffDone(p) ==
  /\ micro = "none"
  /\ tpc[p] = "backoff"
  /\ tpc' = [tpc EXCEPT ![p] = "goto"]
  /\ gotoCalls' = [gotoCalls EXCEPT ![p] = @ + 1]
  /\ backoffs' = [backoffs EXCEPT ![p] = @ + 1]
  /\ UNCHANGED <<contexts, tctx, tpage, retries, terr, gotoFails, micro>>
  /\ TargetFrame

\* page.waitForLoadState("networkidle").catch(...): a timeout is logged only
NetIdleDone(p, ok) ==
  /\ micro = "none"
  /\ tpc[p] = "netidle"
  /\ tpc' = [tpc EXCEPT ![p] = "screenshot"]
  /\ UNCHANGED <<contexts, tctx, tpage, retries, terr, gotoCalls, gotoFails, backoffs, micro>>
  /\ TargetFrame

\* waitForDynamicContent: its own try/catch logs any failure
SettleDone(p, ok) ==
  /\ micro = "none"
  /\ tpc[p] = "settle"
  /\ tpc' = [tpc EXCEPT ![p] = "screenshot"]
  /\ UNCHANGED <<contexts, tctx, tpage, retries, terr, gotoCalls, gotoFails, backoffs, micro>>
  /\ TargetFrame

\* after `await page.screenshot(...)`
ScreenshotDone(p, ok) ==
  /\ micro = "none"
  /\ tpc[p] = "screenshot"
  /\ IF impl = "retry"
     THEN /\ tpc' = [tpc EXCEPT ![p] = "close"]
          /\ terr' = [terr EXCEPT ![p] = ~ok]
     ELSE /\ tpc' = [tpc EXCEPT ![p] = IF ok THEN "close" ELSE "rejected"]
          /\ UNCHANGED terr
  /\ files' = IF ok THEN WriteFile(files, "out", Record(p[2]), "new", p[1]) ELSE files
  /\ micro' = IF tpc'[p] = "rejected" THEN SettleMicro(p) ELSE "none"
  /\ UNCHANGED <<contexts, tctx, tpage, retries, gotoCalls, gotoFails, backoffs>>
  /\ UNCHANGED <<configVars, wfDiffs, wfReport, afterBaseline, browsers, openHandles,
                 nextHandle, pendingLaunch, orphans, relaunched, initVars, cleanVars,
                 csVars, wfVars, clientVars>>

\* after `await page.close()` (multi-browser: last statement of the try;
\* retrying: the finally block, which keeps a pending error)
PageCloseDone(p, ok) ==
  /\ micro = "none"
  /\ tpc[p] = "close"
  /\ tpage' = [tpage EXCEPT ![p] = IF ok THEN "closed" ELSE @]
  /\ tpc' = [tpc EXCEPT ![p] = IF ok /\ ~terr[p] THEN "fulfilled" ELSE "rejected"]
  /\ micro' = SettleMicro(p)
  /\ UNCHANGED <<contexts, tctx, retries, terr, gotoCalls, gotoFails, backoffs>>
  /\ TargetFrame

\* ------------------------------------------------------------------ DiffManager
\* file paths as token sequences: outputDir, `${device.name}-${browserType}`, ".png"
FilePaths ==
  {<<"out/", "Desktop-chromium", ".png">>,
   <<"out", ".png", "/", "Desktop-chromium", ".png">>}

\* path.join(path.dirname(filepath), "baseline", path.basename(filepath))
BaselinePath(path) ==
  SubSeq(path, 1, Len(path) - 2) \o <<"baseline/">> \o SubSeq(path, Len(path) - 1, Len(path))

RECURSIVE ReplaceFirst(_, _, _)
\* String.prototype.replace with a string pattern: the first occurrence only
ReplaceFirst(str, pattern, by) ==
  IF str = <<>> THEN <<>>
  ELSE IF Head(str) = pattern THEN <<by>> \o Tail(str)
  ELSE <<Head(str)>> \o ReplaceFirst(Tail(str), pattern, by)

\* filepath.replace(".png", "-diff.png")
DiffPath(path) == ReplaceFirst(path, ".png", "-diff.png")
NoPath == <<>>

\* images: width x height pixels, pixel idx = y * width + x
Images ==
  UNION {[width : {w}, height : {h}, px : [0..(w * h - 1) -> 0..MaxPixel]] :
           w \in 1..MaxWidth, h \in 1..MaxHeight}

\* ignoreRegions: rectangles, one of them partly outside of every image
Rects ==
  {[x |-> 0, y |-> 0, width |-> 1, height |-> 1],
   [x |-> 1, y |-> 0, width |-> MaxWidth, height |-> 1]}

DiffOptions ==
  [threshold : 0..MaxThreshold, ignoreAntialiasing : BOOLEAN, ignoreColors : BOOLEAN,
   ignoreTransparency : BOOLEAN, ignoreRegions : SUBSET Rects]

\* the basic DiffManager has a threshold only: includeAA is true, nothing else
BasicOptions(threshold) ==
  [threshold |-> threshold, ignoreAntialiasing |-> FALSE, ignoreColors |-> FALSE,
   ignoreTransparency |-> FALSE, ignoreRegions |-> {}]

\* image.grayscale(): the colours 1..MaxPixel share one luminance
Grayscale(v) == IF v = 0 THEN 0 ELSE 1

\* preprocessImage / sharp(path).raw().toBuffer(): 4 bytes per pixel
PreprocessImage(img, grey) ==
  [len |-> img.width * img.height * 4,
   px |-> [i \in DOMAIN img.px |-> IF grey THEN Grayscale(img.px[i]) ELSE img.px[i]]]
NoBuffer == [len |-> 0, px |-> [i \in {} |-> 0]]

DeltaPlusOne(a, b) == (IF a < b THEN b - a ELSE a - b) + 1
\* the colour distance pixelmatch compares with the threshold
Delta(a, b) == IF a < b THEN b - a ELSE a - b

\* the options object handed to pixelmatch: basic `{ threshold:
\* this.thresholds.pixelMatch, includeAA: true }`; smart `{ threshold:
\* this.options.threshold, includeAA: !this.options.ignoreAntialiasing,
\* alpha: 0.5, ... }` (alpha as tenths; the default of pixelmatch is 0.1)
PixelmatchArgs(which, opts) ==
  [threshold |-> opts.threshold,
   includeAA |-> IF which = "smart" THEN ~opts.ignoreAntialiasing ELSE TRUE,
   alpha |-> IF which = "smart" THEN 5 ELSE 1]

\* pixelmatch rejects buffers that are not width * height * 4 bytes, as the
\* output buffer Buffer.alloc(width * height * 4) is
PixelmatchThrows(img1, img2, width, height) ==
  \/ img1.len # img2.len
  \/ img1.len # width * height * 4

\* the pixels pixelmatch counts: colour distance above the threshold, and not
\* an anti-aliased pixel unless includeAA
Pixelmatch(img1, img2, width, height, threshold, includeAA) ==
  {i \in 0..(width * height - 1) :
     /\ Delta(img1.px[i], img2.px[i]) > threshold
     /\ (includeAA \/ i \notin aaPixels)}

\* the pixels pixelmatch draws into the output buffer
PixelmatchOutput(img1, img2, width, height, threshold) ==
  {i \in 0..(width * height - 1) : Delta(img1.px[i], img2.px[i]) > threshold}

\* the pixels applyIgnoreRegions clears: inside a region and inside the image
RegionPixels(regions, width, height) ==
  {y * width + x : <<x, y>> \in
     {c \in (0..(width - 1)) \X (0..(height - 1)) :
        \E r \in regions : /\ r.x <= c[1] /\ c[1] < r.x + r.width
                           /\ r.y <= c[2] /\ c[2] < r.y + r.height}}

ApplyIgnoreRegions(image, regions, width, height) ==
  image \ RegionPixels(regions, width, height)

CountClearedPixels(counted, output) == Cardinality(counted \ output)
\* diffPixels is what pixelmatch returned; applyIgnoreRegions changes the
\* output buffer only
DiffPixels(counted, output) == Cardinality(counted)

\* (diffPixels / (width * height)) * 100 as the fraction <<numerator, denominator>>
DiffPercentage(pixels, width, height) == <<pixels * 100, width * height>>

HasDiffAlways(percentage) == percentage[1] >= 0
\* hasDiff = diffPercentage > 0
HasDiff(percentage) == percentage[1] > 0

NoResult ==
  [device |-> "", hasDiff |-> FALSE, diffPercentage |-> <<0, 1>>, diffPath |-> NoPath,
   message |-> ""]
NoBaselineResult ==
  [device |-> device, hasDiff |-> FALSE, diffPercentage |-> <<0, 1>>, diffPath |-> NoPath,
   message |-> "No baseline available for comparison"]
DiffResult(pixels, width, height) ==
  LET percentage == DiffPercentage(pixels, width, height)
  IN [device |-> device,
      hasDiff |-> HasDiff(percentage),
      diffPercentage |-> percentage,
      diffPath |-> IF HasDiff(percentage) THEN DiffPath(filepath) ELSE NoPath,
      message |-> IF HasDiff(percentage) THEN "Found different pixels"
                  ELSE "No differences found"]

\* everything but the Diff Engine
coreVars == <<impl, devices, browserTypes, maxParallelBrowsers, poolVars, initVars,
              cleanVars, csVars, procVars, wfVars, clientVars, micro>>
restVars == <<coreVars, reportVars, compareVars, cliVars, dmVars, fsVars, extraVars>>
oldVars == <<coreVars, diffVars, reportVars, compareVars, cliVars, dmVars, fsVars>>
nonPathVars == <<oldVars, ppConfig, batchVars>>
nonBatchVars == <<oldVars, pathVars, ppConfig>>

\* compare([screenshot]) -> compareScreenshot: `await fs.access(baselinePath)`
CompareCall ==
  /\ dPc = "idle"
  /\ dPc' = "access"
  /\ UNCHANGED <<restVars, diffInputs, currentImage, baselineImage, diffPixels, diffImage,
                 diffResult, diffError, decodedFiles, writtenFiles>>

AlwaysDecode(exists) == "decode"
\* try { await fs.access(baselinePath) } catch { return the no-baseline record }
AfterAccess(exists) == IF exists THEN "decode" ELSE "returned"

AccessDone ==
  /\ dPc = "access"
  /\ dPc' = AfterAccess(baseline # {})
  /\ diffResult' = IF AfterAccess(baseline # {}) = "returned" THEN NoBaselineResult
                   ELSE diffResult
  /\ UNCHANGED <<restVars, diffInputs, currentImage, baselineImage, diffPixels, diffImage,
                 diffError, decodedFiles, writtenFiles>>

\* Promise.all([decode(filepath), decode(baselinePath)]) settles; a file that
\* is missing or not an image rejects
DecodeDone(ok) ==
  /\ dPc = "decode"
  /\ decodedFiles' = decodedFiles \cup {filepath, BaselinePath(filepath)}
  /\ IF ok /\ baseline # {}
     THEN /\ currentImage' = PreprocessImage(current, options.ignoreColors)
          /\ baselineImage' =
               PreprocessImage(CHOOSE b \in baseline : TRUE, options.ignoreColors)
          /\ dPc' = "metadata"
          /\ UNCHANGED diffError
     ELSE /\ dPc' = "thrown"
          /\ diffError' = "decode"
          /\ UNCHANGED <<currentImage, baselineImage>>
  /\ UNCHANGED <<restVars, diffInputs, diffPixels, diffImage, diffResult, writtenFiles>>

\* `await sharp(filepath).metadata()` settles; then, without another await:
\* pixelmatch, applyIgnoreRegions, diffPercentage, hasDiff
MetadataDone(ok) ==
  /\ dPc = "metadata"
  /\ LET width == current.width
         height == current.height
         args == PixelmatchArgs(dimpl, options)
         counted == Pixelmatch(currentImage, baselineImage, width, height,
                               args.threshold, args.includeAA)
         output == IF options.ignoreRegions # {}
                   THEN ApplyIgnoreRegions(
                          PixelmatchOutput(currentImage, baselineImage, width, height,
                                           args.threshold),
                          options.ignoreRegions, width, height)
                   ELSE PixelmatchOutput(currentImage, baselineImage, width, height,
                                         args.threshold)
     IN IF ~ok \/ PixelmatchThrows(currentImage, baselineImage, width, height)
        THEN /\ dPc' = "thrown"
             /\ diffError' = IF ~ok THEN "metadata" ELSE "pixelmatch"
             /\ UNCHANGED <<diffPixels, diffImage, diffResult>>
        ELSE /\ diffPixels' = DiffPixels(counted, output)
             /\ UNCHANGED diffError
             /\ diffImage' = output
             /\ IF HasDiff(DiffPercentage(DiffPixels(counted, output), width, height))
                THEN /\ dPc' = "write"
                     /\ UNCHANGED diffResult
                ELSE /\ dPc' = "returned"
                     /\ diffResult' = DiffResult(DiffPixels(counted, output), width, height)
  /\ UNCHANGED <<restVars, diffInputs, currentImage, baselineImage, decodedFiles,
                 writtenFiles>>

\* `await sharp(diffImage, ...).png().toFile(diffPath)` settles
WriteDone(ok) ==
  /\ dPc = "write"
  /\ IF ok
     THEN /\ writtenFiles' = writtenFiles \cup {DiffPath(filepath)}
          /\ diffResult' = DiffResult(diffPixels, current.width, current.height)
          /\ dPc' = "returned"
          /\ UNCHANGED diffError
     ELSE /\ dPc' = "thrown"
          /\ diffError' = "write"
          /\ UNCHANGED <<writtenFiles, diffResult>>
  /\ UNCHANGED <<restVars, diffInputs, currentImage, baselineImage, diffPixels, diffImage,
                 decodedFiles>>

\* a DiffManager that has compared nothing
DiffStart ==
  /\ dPc = "idle"
  /\ currentImage = NoBuffer /\ baselineImage = NoBuffer
  /\ diffPixels = 0 /\ diffImage = {}
  /\ diffResult = NoResult
  /\ diffError = "none"
  /\ decodedFiles = {} /\ writtenFiles = {}

\* new DiffManager(config.thresholds) of the orchestrator, nothing to compare yet
DiffIdle ==
  /\ dimpl = "basic"
  /\ options = BasicOptions(0)
  /\ device = "Desktop"
  /\ filepath = <<"out/", "Desktop-chromium", ".png">>
  /\ current = [width |-> 1, height |-> 1, px |-> [i \in {0} |-> 0]]
  /\ baseline = {}
  /\ aaPixels = {}
  /\ DiffStart

\* ------------------------------------------------------------ DiffManager.compare
\* the Screenshot[] argument: each screenshot with what is on disk at its
\* path and at its baseline path
CompareInputs ==
  [device : {DeviceNames[k] : k \in 1..Len(DeviceNames)},
   filepath : {<<"out/", "Desktop-chromium", ".png">>},
   current : {i \in Images : i.width = 1 /\ i.height = 1},
   baseline : {{}} \cup {{b} : b \in {i \in Images : i.width = 1 /\ i.height = 1}}]

\* new DiffManager(): the options of the constructor's defaults
DefaultOptions ==
  [threshold |-> 0, ignoreAntialiasing |-> TRUE, ignoreColors |-> FALSE,
   ignoreTransparency |-> TRUE, ignoreRegions |-> {}]

\* everything but the Diff Engine and compare()
nonCompareVars == <<coreVars, reportVars, cliVars, dmVars, fsVars, extraVars>>

PushFront(diffs, diff) == <<diff>> \o diffs
\* diffs.push(diff)
PushDiff(diffs, diff) == Append(diffs, diff)

\* compareScreenshot(screenshot) is entered: `const { device, filepath } =
\* screenshot` and `await fs.access(baselinePath)`
EnterCompareScreenshot(screenshot) ==
  /\ device' = screenshot.device
  /\ filepath' = screenshot.filepath
  /\ current' = screenshot.current
  /\ baseline' = screenshot.baseline
  /\ dPc' = "access"
  /\ currentImage' = NoBuffer /\ baselineImage' = NoBuffer
  /\ diffPixels' = 0 /\ diffImage' = {}
  /\ diffResult' = NoResult
  /\ UNCHANGED <<dimpl, options, aaPixels, diffError, decodedFiles, writtenFiles>>

\* compare(screenshots) is called: `const diffs = []`, then the first
\* iteration of `for (const screenshot of screenshots)` up to its await
CompareBegin ==
  /\ cmpPc = "idle"
  /\ cmpDiffs' = <<>>
  /\ IF cmpScreenshots = <<>>
     THEN /\ cmpPc' = "returned"
          /\ UNCHANGED <<cmpIdx, diffVars>>
     ELSE /\ cmpPc' = "loop"
          /\ cmpIdx' = 1
          /\ EnterCompareScreenshot(cmpScreenshots[1])
  /\ UNCHANGED <<cmpScreenshots, nonCompareVars>>

\* `await this.compareScreenshot(screenshot)` resolves: `diffs.push(diff)`,
\* then the next iteration up to its await, or `return diffs`
CompareResume ==
  /\ cmpPc = "loop" /\ dPc = "returned"
  /\ cmpDiffs' = PushDiff(cmpDiffs, diffResult)
  /\ IF cmpIdx = Len(cmpScreenshots)
     THEN /\ cmpPc' = "returned"
          /\ UNCHANGED <<cmpIdx, diffVars>>
     ELSE /\ cmpIdx' = cmpIdx + 1
          /\ EnterCompareScreenshot(cmpScreenshots[cmpIdx + 1])
          /\ UNCHANGED cmpPc
  /\ UNCHANGED <<cmpScreenshots, nonCompareVars>>

\* `await this.compareScreenshot(screenshot)` rejects: catch logs and rethrows
CompareRethrow ==
  /\ cmpPc = "loop" /\ dPc = "thrown"
  /\ cmpPc' = "thrown"
  /\ UNCHANGED <<cmpScreenshots, cmpIdx, cmpDiffs, diffVars, nonCompareVars>>

\* compare() has not been called
CompareIdle ==
  /\ cmpScreenshots = <<>> /\ cmpPc = "idle" /\ cmpIdx = 0 /\ cmpDiffs = <<>>

\* ---------------------------------------------------------------- test reports
\* everything but the report
nonReportVars == <<coreVars, diffVars, compareVars, cliVars, dmVars, fsVars, extraVars>>

\* the arguments of a report: Screenshot[] (device, browser) and DiffResult[]
\* (device, hasDiff)
ReportScreenshots ==
  SeqsUpTo([device : {DeviceNames[k] : k \in 1..Len(DeviceNames)}, browser : {"chromium"}],
           MaxReport)
ReportDiffs ==
  SeqsUpTo([device : {DeviceNames[k] : k \in 1..Len(DeviceNames)}, hasDiff : BOOLEAN],
           MaxReport)

\* diffs.filter((d) => d.hasDiff).length
DevicesWithDiffs(diffs) == Cardinality({i \in 1..Len(diffs) : diffs[i].hasDiff})

\* diffs.reduce((sum, d) => sum + (d.hasDiff ? 1 : 0), 0)
RECURSIVE TotalDiffs(_)
TotalDiffs(diffs) ==
  IF diffs = <<>> THEN 0
  ELSE TotalDiffs(SubSeq(diffs, 1, Len(diffs) - 1))
         + (IF diffs[Len(diffs)].hasDiff THEN 1 ELSE 0)

NoReport == [summary |-> [totalDevices |-> 0 - 1, devicesWithDiffs |-> 0 - 1,
                          totalDiffs |-> 0 - 1],
             screenshots |-> <<>>, diffs |-> <<>>]

\* the TestReport ReportManager.generate builds
GenerateReport(shots, diffs) ==
  [summary |-> [totalDevices |-> Len(shots),
                devicesWithDiffs |-> DevicesWithDiffs(diffs),
                totalDiffs |-> TotalDiffs(diffs)],
   screenshots |-> [i \in 1..Len(shots) |-> [device |-> shots[i].device]],
   diffs |-> [i \in 1..Len(diffs) |->
                [device |-> diffs[i].device, hasDiff |-> diffs[i].hasDiff]]]

\* the TestReport DiffManager.generateDiffReport builds
GenerateDiffReport(diffs) ==
  [summary |-> [totalDevices |-> Len(diffs),
                devicesWithDiffs |-> DevicesWithDiffs(diffs),
                totalDiffs |-> TotalDiffs(diffs)],
   screenshots |-> <<>>,
   diffs |-> diffs]

\* ReportManager.generate(screenshots, diffs): `await fs.mkdir(this.reportsDir)`
GenerateCall ==
  /\ rPc = "idle"
  /\ rKind' = "generate"
  /\ rPc' = "mkdir"
  /\ UNCHANGED <<rScreenshots, rDiffs, report, nonReportVars>>

\* the directory exists: the report is built and `await fs.writeFile(jsonPath, ...)`
ReportMkdirDone(ok) ==
  /\ rPc = "mkdir"
  /\ IF ok
       THEN /\ report' = GenerateReport(rScreenshots, rDiffs)
            /\ rPc' = "writeJson"
       ELSE /\ rPc' = "thrown"
            /\ UNCHANGED report
  /\ UNCHANGED <<rKind, rScreenshots, rDiffs, nonReportVars>>

\* the JSON report is written: `await this.generateHtmlReport(report, htmlPath)`
ReportWriteDone(ok) ==
  /\ rPc = "writeJson"
  /\ rPc' = IF ok THEN "writeHtml" ELSE "thrown"
  /\ UNCHANGED <<rKind, rScreenshots, rDiffs, report, nonReportVars>>

\* the HTML report is written: `return { jsonPath, htmlPath, report }`
ReportHtmlDone(ok) ==
  /\ rPc = "writeHtml"
  /\ rPc' = IF ok THEN "returned" ELSE "thrown"
  /\ UNCHANGED <<rKind, rScreenshots, rDiffs, report, nonReportVars>>

\* DiffManager.generateDiffReport(diffs): no await, the report is returned
GenerateDiffReportCall ==
  /\ rPc = "idle"
  /\ rKind' = "generateDiffReport"
  /\ report' = GenerateDiffReport(rDiffs)
  /\ rPc' = "returned"
  /\ UNCHANGED <<rScreenshots, rDiffs, nonReportVars>>

\* no report is being generated
ReportIdle ==
  /\ rKind = "none" /\ rScreenshots = <<>> /\ rDiffs = <<>>
  /\ rPc = "idle" /\ report = NoReport

\* ------------------------------------------------------------ command line
\* the CLI entry points of the repository: the commander program of cli.ts,
\* the yargs main() of cli.ts, the commander program of index.ts
CliEntries == {"cli.ts program", "cli.ts main", "index.ts program"}
CliCommands == {"test", "update-baseline"}
NoExit == 0 - 1

\* everything but the command line and the report
nonCliVars == <<coreVars, diffVars, compareVars, dmVars, fsVars, extraVars>>

\* the test command after `await run()` returned a report: cli.ts calls
\* process.exit(0); main() calls process.exit(1) if devicesWithDiffs > 0 and
\* returns otherwise; index.ts returns.  A process that ends by itself ends
\* with status 0.
ExitAfterRun(entry, output) ==
  CASE entry = "cli.ts program" -> 0
    [] entry = "cli.ts main" -> IF output.summary.devicesWithDiffs > 0 THEN 1 ELSE 0
    [] OTHER -> 0

\* the command is started: new PixelPerfect(...), then `await run()` or
\* `await updateBaseline()`
CliStart(entry, command) ==
  /\ cliPc = "idle"
  /\ cliEntry' = entry
  /\ cliCommand' = command
  /\ cliPc' = "workflow"
  /\ UNCHANGED <<cliError, exitCode, reportVars, nonCliVars>>

\* the workflow settles short of the report: updateBaseline() as a whole, or
\* the initialize, capture and compare stages of run(); run() goes on with
\* `await this.reportManager.generate(screenshots, diffs)`.  A rejection
\* reaches the catch block of the command: process.exit(1).
CliWorkflowDone(ok) ==
  /\ cliPc = "workflow"
  /\ IF ~ok
     THEN /\ cliPc' = "exited"
          /\ cliError' = TRUE
          /\ exitCode' = 1
          /\ UNCHANGED reportVars
     ELSE IF cliCommand = "update-baseline"
     THEN /\ cliPc' = "exited"
          /\ exitCode' = 0
          /\ UNCHANGED <<cliError, reportVars>>
     ELSE /\ cliPc' = "report"
          /\ rKind' = "generate"
          /\ rPc' = "mkdir"
          /\ UNCHANGED <<cliError, exitCode, rScreenshots, rDiffs, report>>
  /\ UNCHANGED <<cliEntry, cliCommand, nonCliVars>>

\* generate() settled and with it run(): the command's try block goes on, or
\* its catch block calls process.exit(1)
CliRunDone ==
  /\ cliPc = "report"
  /\ rPc \in {"returned", "thrown"}
  /\ cliPc' = "exited"
  /\ cliError' = (rPc = "thrown")
  /\ exitCode' = IF rPc = "thrown" THEN 1 ELSE ExitAfterRun(cliEntry, report)
  /\ UNCHANGED <<cliEntry, cliCommand, reportVars, nonCliVars>>

\* no command has been started
CliIdle ==
  /\ cliEntry = "none" /\ cliCommand = "none" /\ cliPc = "idle"
  /\ cliError = FALSE /\ exitCode = NoExit

\* --------------------------------------------------------- device resolution
\* const deviceMap / DEVICE_PRESETS: the names of the catalog
Catalog == {DeviceNames[k] : k \in 1..Len(DeviceNames)}
\* the names --devices may hold: those of the catalog and one that is not
AskedNames == Catalog \cup {"Nokia 3310"}

\* what a list of devices may hold: undefined, a Device, a string
Undefined == <<"undefined", "">>
DeviceProfile(name) == <<"Device", name>>
NameString(name) == <<"string", name>>
\* the devices a DeviceManager of DeviceManager.ts starts with
DefaultDevices == [k \in 1..Len(DeviceNames) |-> DeviceProfile(DeviceNames[k])]

\* everything but device resolution
nonDmVars == <<coreVars, diffVars, compareVars, reportVars, cliVars, fsVars, extraVars>>

\* the CLI: deviceNames.map((name) => deviceMap[name]); a caller of the
\* library with the string-resolving DeviceManager: the names themselves
ConfigDevices(entry, names) ==
  [i \in 1..Len(names) |->
     IF entry = "library" THEN NameString(names[i])
     ELSE IF names[i] \in Catalog THEN DeviceProfile(names[i]) ELSE Undefined]

\* new DeviceManager(devices) of BrowserManager.ts: a string is looked up in
\* DEVICE_PRESETS and an unknown one throws; anything else is kept as it is
ResolveThrows(config) ==
  \E i \in 1..Len(config) : config[i][1] = "string" /\ config[i][2] \notin Catalog
Resolve(config) ==
  [i \in 1..Len(config) |->
     IF config[i][1] = "string" THEN DeviceProfile(config[i][2]) ELSE config[i]]

\* new PixelPerfect({ devices, ... }): new DeviceManager(this.config.devices)
DmConstruct ==
  /\ dmPc = "idle"
  /\ configDevices' = ConfigDevices(dmEntry, deviceNames)
  /\ IF dmImpl = "BrowserManager.ts"
     THEN IF ResolveThrows(ConfigDevices(dmEntry, deviceNames))
          THEN /\ dmPc' = "rejected"
               /\ dmError' = "Unknown device preset"
               /\ UNCHANGED dmDevices
          ELSE /\ dmPc' = "constructed"
               /\ dmDevices' = Resolve(ConfigDevices(dmEntry, deviceNames))
               /\ UNCHANGED dmError
     ELSE /\ dmPc' = "constructed"
          /\ dmDevices' = DefaultDevices \o ConfigDevices(dmEntry, deviceNames)
          /\ UNCHANGED dmError
  /\ UNCHANGED <<dmImpl, dmEntry, deviceNames, dmLaunched, nonDmVars>>

\* run(): `await this.deviceManager.initialize()`; BrowserManager.ts: a no-op;
\* DeviceManager.ts: device.name of every device is looked up in
\* DEVICE_PRESETS (an undefined device is a TypeError) and the list is
\* extended by a copy of each device
DmInitialize ==
  /\ dmPc = "constructed"
  /\ IF dmImpl = "BrowserManager.ts"
     THEN /\ dmPc' = "initialized"
          /\ UNCHANGED <<dmDevices, dmError>>
     ELSE IF \E i \in 1..Len(dmDevices) : dmDevices[i] = Undefined
     THEN /\ dmPc' = "failed"
          /\ dmError' = "TypeError"
          /\ UNCHANGED dmDevices
     ELSE /\ dmPc' = "initialized"
          /\ dmDevices' = dmDevices \o dmDevices
          /\ UNCHANGED dmError
  /\ UNCHANGED <<dmImpl, dmEntry, deviceNames, configDevices, dmLaunched, nonDmVars>>

\* run(): `await this.screenshotManager.initialize()` settles: chromium is
\* launched, then captureScreenshots(url, this.deviceManager.getDevices(), ...)
DmLaunchDone(ok) ==
  /\ dmPc = "initialized"
  /\ dmLaunched' = ok
  /\ dmPc' = IF ok THEN "capture" ELSE "failed"
  /\ dmError' = IF ok THEN dmError ELSE "launch"
  /\ UNCHANGED <<dmImpl, dmEntry, deviceNames, configDevices, dmDevices, nonDmVars>>

\* the captures of the first batch start: createContext(device, browserType)
\* reads device.name, a TypeError for an undefined device
DmCaptureStart ==
  /\ dmPc = "capture"
  /\ IF \E i \in 1..Min(Len(dmDevices), DefaultMaxParallel) : dmDevices[i] = Undefined
     THEN /\ dmPc' = "failed"
          /\ dmError' = "TypeError in capture"
     ELSE /\ dmPc' = "capturing"
          /\ UNCHANGED dmError
  /\ UNCHANGED <<dmImpl, dmEntry, deviceNames, configDevices, dmDevices, dmLaunched,
                 nonDmVars>>

\* no orchestrator has been constructed
DmIdle ==
  /\ dmImpl = "DeviceManager.ts" /\ dmEntry = "cli" /\ deviceNames = <<>>
  /\ configDevices = <<>> /\ dmDevices = <<>> /\ dmPc = "idle"
  /\ dmError = "none" /\ dmLaunched = FALSE

\* ------------------------------------------------------------------ file paths
\* the characters of a device name: a lower-case and an upper-case letter, a
\* blank, a hyphen and the path separator
NameChars == {"a", "A", " ", "-", "/"}
TargetNames == UNION {[1..n -> NameChars] : n \in 1..MaxNameLen}

\* path.join(outputDir, file): a path is the sequence of its segments; the
\* separators in `file` split it, and empty segments are normalised away
PathJoin(dir, file) ==
  LET NonEmpty(seg) == seg # <<>>
      split[i \in 0..Len(file)] ==
        IF i = 0 THEN << <<>> >>
        ELSE IF file[i] = "/" THEN Append(split[i - 1], <<>>)
        ELSE [split[i - 1] EXCEPT ![Len(split[i - 1])] = Append(@, file[i])]
  IN dir \o SelectSeq(split[Len(file)], NonEmpty)
OutputDir == << <<"out">> >>

\* multi: path.join(outputDir, `${device.name}-${browserType}.png`);
\* retry: path.join(outputDir,
\*   `${device.name.toLowerCase().replace(/\s+/g, "-")}.png`)
ScreenshotPath(which, name, engine) ==
  LET lower == [i \in 1..Len(name) |-> IF name[i] = "A" THEN "a" ELSE name[i]]
      replaced[i \in 0..Len(name)] ==
        IF i = 0 THEN <<>>
        ELSE IF lower[i] # " " THEN Append(replaced[i - 1], lower[i])
        ELSE IF i > 1 /\ lower[i - 1] = " " THEN replaced[i - 1]
        ELSE Append(replaced[i - 1], "-")
  IN IF which = "multi"
     THEN PathJoin(OutputDir, name \o <<"-", engine, ".png">>)
     ELSE PathJoin(OutputDir, replaced[Len(name)] \o <<".png">>)

\* compareScreenshot:
\* path.join(path.dirname(filepath), "baseline", path.basename(filepath))
BaselineLookup(path) ==
  SubSeq(path, 1, Len(path) - 1) \o << <<"baseline">>, path[Len(path)] >>
\* updateBaseline: path.join(path.join(outputDir, "baseline"),
\*   path.basename(screenshot.filepath))
BaselineTarget(path) == OutputDir \o << <<"baseline">>, path[Len(path)] >>

\* captureScreenshots on the two targets: the filepath of each record
PathsCapture ==
  /\ pPc \in {"start", "moved"}
  /\ pShots' = [i \in 1..Len(pTargets) |->
                  ScreenshotPath(pImpl, pTargets[i].name, pTargets[i].engine)]
  /\ pPc' = IF pPc = "start" THEN "captured" ELSE "recaptured"
  /\ UNCHANGED <<pImpl, pTargets, pMoved, pLooked, nonPathVars>>

\* updateBaseline: every screenshot is renamed into outputDir/baseline
PathsUpdateBaseline ==
  /\ pPc = "captured"
  /\ pMoved' = [i \in 1..Len(pShots) |-> BaselineTarget(pShots[i])]
  /\ pShots' = <<>>
  /\ pPc' = "moved"
  /\ UNCHANGED <<pImpl, pTargets, pLooked, nonPathVars>>

\* compare(screenshots): the baseline path each comparison looks up
PathsCompare ==
  /\ pPc \in {"captured", "recaptured"}
  /\ pLooked' = [i \in 1..Len(pShots) |-> BaselineLookup(pShots[i])]
  /\ pPc' = "compared"
  /\ UNCHANGED <<pImpl, pTargets, pShots, pMoved, nonPathVars>>

\* ------------------------------------------------ the tolerance of an orchestrator
\* thresholds.pixelMatch of the constructor's defaultConfig (0.1, the lowest
\* level of the model)
DefaultPixelMatch == 0
NotConfigured == 0 - 1

\* the config a caller hands to new PixelPerfect(config), and this.config =
\* { ...defaultConfig, ...config }: the library caller may set
\* thresholds.pixelMatch; the test command of cli.ts sets thresholds: {
\* pixelMatch: parseFloat(options.threshold) }; the test commands of index.ts
\* set diffOptions: { threshold: parseFloat(options.threshold) }
PixelPerfectConfig(entry, asked) ==
  [entry |-> entry, asked |-> asked,
   thresholds |-> IF entry = "index.ts" \/ asked = NotConfigured
                  THEN DefaultPixelMatch ELSE asked,
   diffOptions |-> IF entry = "index.ts" THEN asked ELSE NotConfigured]
PixelPerfectConfigs ==
  {PixelPerfectConfig("library", NotConfigured)}
    \cup {PixelPerfectConfig(entry, asked) :
            entry \in {"library", "cli.ts", "index.ts"}, asked \in 0..MaxThreshold}

\* this.diffManager = new DiffManager(this.config.thresholds): the basic
\* constructor spreads the thresholds over { pixelMatch: 0.1 }; the smart one
\* spreads its argument over its defaults, of which `threshold` is the one
\* it reads, and the argument has no such key
NewDiffManager(which, config) ==
  IF which = "basic" THEN BasicOptions(config.thresholds) ELSE DefaultOptions

\* ------------------------------------------------------- the loop of createBatches
\* the batch sizes a caller may construct the manager with: parseInt of
\* --parallel may be zero or negative
BatchSizes == (0 - MaxParallel)..DefaultMaxParallel

\* Array.prototype.slice(start, end) on an array of length n, as the positions
\* it returns: a negative index counts from the end, both are clamped to 0..n
Slice(n, start, end) ==
  LET clamp(k) == IF k < 0 THEN (IF n + k < 0 THEN 0 ELSE n + k)
                  ELSE IF k > n THEN n ELSE k
  IN [j \in 1..(IF clamp(end) > clamp(start) THEN clamp(end) - clamp(start) ELSE 0)
        |-> clamp(start) + j]

\* for (let i = 0; i < devices.length; i += batchSize)
\*   batches.push(devices.slice(i, i + batchSize));
\* one iteration (no more than MaxLoop batches and no index below -MaxLoop are
\* kept track of)
CreateBatchesStep ==
  /\ bPc = "loop" /\ bI < Len(bDevices)
  /\ bBatches' = IF Len(bBatches) < MaxLoop
                 THEN Append(bBatches, Slice(Len(bDevices), bI, bI + bSize))
                 ELSE bBatches
  /\ bI' = IF bI + bSize < 0 - MaxLoop THEN 0 - MaxLoop ELSE bI + bSize
  /\ UNCHANGED <<bDevices, bSize, bPc, nonBatchVars>>

\* the loop condition fails: return batches
CreateBatchesReturn ==
  /\ bPc = "loop" /\ ~(bI < Len(bDevices))
  /\ bPc' = "returned"
  /\ UNCHANGED <<bDevices, bSize, bI, bBatches, nonBatchVars>>

BatchesIdle ==
  /\ bDevices = <<>> /\ bSize = DefaultMaxParallel /\ bI = 0 /\ bBatches = <<>>
  /\ bPc = "returned"

PathsIdle ==
  /\ pImpl = "multi" /\ pTargets = <<>> /\ pShots = <<>> /\ pMoved = <<>>
  /\ pLooked = <<>> /\ pPc = "start"
ToleranceIdle == ppConfig = PixelPerfectConfig("library", NotConfigured)
ExtraIdle == PathsIdle /\ ToleranceIdle /\ BatchesIdle

\* ---------------------------------------------------------------- initial states
PoolInit ==
  /\ browsers = <<>> /\ contexts = {} /\ openHandles = {} /\ nextHandle = 1
  /\ pendingLaunch = {} /\ orphans = {} /\ relaunched = FALSE
  /\ initPc = "idle" /\ initAwait = {}
  /\ cleanupPc = "idle" /\ cleanupIdx = 0 /\ cleanupHandle = 0 /\ cleanupStart = {}
  /\ closeAttempted = {} /\ closeFailed = {}

CaptureInit ==
  /\ csPc = "idle" /\ csCall = 0 /\ batchNo = 0 /\ screenshots = <<>>
  /\ tpc = [p \in Procs |-> "none"]
  /\ tctx = [p \in Procs |-> NoCtx]
  /\ tpage = [p \in Procs |-> "none"]
  /\ retries = [p \in Procs |-> 0]
  /\ terr = [p \in Procs |-> FALSE]
  /\ gotoCalls = [p \in Procs |-> 0]
  /\ gotoFails = [p \in Procs |-> 0]
  /\ backoffs = [p \in Procs |-> 0]

IdleInit ==
  /\ wf = "none" /\ wfPc = "none" /\ wfCount = 0 /\ wfCleanups = 0
  /\ wfError = FALSE /\ wfHandles = {} /\ moveIdx = 0
  /\ poolCall = "none" /\ poolArg = <<>> /\ poolOps = 0
  /\ epochReturns = {} /\ askedAfterReturn = FALSE /\ cacheHit = FALSE
  /\ micro = "none"

\* a ScreenshotManager of either iteration, freshly constructed; a client
\* initializes it and calls captureScreenshots once
Init ==
  /\ impl \in {"multi", "retry"}
  /\ devices \in DeviceLists
  /\ browserTypes \in (IF impl = "multi" THEN EngineLists ELSE {<<"chromium">>})
  /\ maxParallelBrowsers \in 1..MaxParallel
  /\ Len(devices) * Len(browserTypes) <= MaxTargets
  /\ PoolInit /\ CaptureInit /\ IdleInit /\ ExtraIdle /\ FsIdle /\ DiffIdle /\ ReportIdle /\ CompareIdle /\ CliIdle /\ DmIdle

Next ==
  \/ InitializeCall
  \/ \E l \in pendingLaunch, ok \in BOOLEAN : LaunchDone(l, ok)
  \/ CaptureScreenshotsCall
  \/ StartBatch
  \/ CaptureReturn
  \/ BatchSettled
  \/ \E p \in Procs, ok \in BOOLEAN : NewContextDone(p, ok)
  \/ \E p \in Procs, ok \in BOOLEAN : NewPageDone(p, ok)
  \/ \E p \in Procs, ok \in BOOLEAN : GotoDone(p, ok)
  \/ \E p \in Procs : GotoIdleTimeout(p)
  \/ \E p \in Procs : BackoffDone(p)
  \/ \E p \in Procs, ok \in BOOLEAN : NetIdleDone(p, ok)
  \/ \E p \in Procs, ok \in BOOLEAN : SettleDone(p, ok)
  \/ \E p \in Procs, ok \in BOOLEAN : ScreenshotDone(p, ok)
  \/ \E p \in Procs, ok \in BOOLEAN : PageCloseDone(p, ok)

Spec == Init /\ [][Next]_vars

\* ------------------------------------------------------- BrowserManager.cleanup
\* cleanup() is entered: `for (const [type, browser] of this.browsers)` begins
CleanupBegin ==
  /\ cleanupIdx' = 0
  /\ cleanupHandle' = 0
  /\ cleanupStart' = {browsers[i][2] : i \in 1..Len(browsers)}
  /\ closeAttempted' = {}
  /\ closeFailed' = {}
  /\ cleanupPc' = "sweep"

\* who awaits cleanup(): a direct caller of the pool, or the workflow
CleanupCaller == IF poolCall = "cleanup" THEN "client" ELSE Notify("cleanup")

\* the iterator yields the next entry of the live map: `await browser.close()`
CleanupNext ==
  /\ micro = "sweep"
  /\ cleanupIdx + 1 <= Len(browsers)
  /\ cleanupIdx' = cleanupIdx + 1
  /\ cleanupHandle' = browsers[cleanupIdx + 1][2]
  /\ closeAttempted' = closeAttempted \cup {browsers[cleanupIdx + 1][2]}
  /\ cleanupPc' = "closing"
  /\ micro' = "none"
  /\ UNCHANGED <<inputVars, poolVars, initVars, cleanupStart, closeFailed,
                 csVars, procVars, wfVars, clientVars>>

\* the iterator is exhausted: this.browsers.clear(); this.contexts.clear()
CleanupFinish ==
  /\ micro = "sweep"
  /\ cleanupIdx + 1 > Len(browsers)
  /\ browsers' = <<>>
  /\ contexts' = {}
  /\ cleanupPc' = "returned"
  /\ epochReturns' = {}
  /\ cacheHit' = FALSE
  /\ micro' = CleanupCaller
  /\ UNCHANGED <<inputVars, openHandles, nextHandle, pendingLaunch, orphans, relaunched,
                 initVars, cleanupIdx, cleanupHandle, cleanupStart, closeAttempted,
                 closeFailed, csVars, procVars, wfVars, poolCall, poolArg, poolOps,
                 askedAfterReturn>>

AfterCloseNoCatch(ok) == IF ok THEN "sweep" ELSE "thrown"
\* try { await browser.close() } catch (error) { this.logger.error(...) }:
\* the loop goes on after a close, failed or not
AfterClose(ok) == "sweep"

\* `await browser.close()` settles
BrowserCloseDone(ok) ==
  /\ micro = "none"
  /\ cleanupPc = "closing"
  /\ openHandles' = IF ok THEN openHandles \ {cleanupHandle} ELSE openHandles
  /\ closeFailed' = IF ok THEN closeFailed ELSE closeFailed \cup {cleanupHandle}
  /\ cleanupPc' = AfterClose(ok)
  /\ micro' = IF AfterClose(ok) = "sweep" THEN "sweep" ELSE CleanupCaller
  /\ UNCHANGED <<inputVars, browsers, contexts, nextHandle, pendingLaunch, orphans,
                 relaunched, initVars, cleanupIdx, cleanupHandle, cleanupStart,
                 closeAttempted, csVars, procVars, wfVars, clientVars>>

\* ------------------------------------- a caller of BrowserManager, one call at a time
PoolInitializeBrowser(type) ==
  /\ micro = "none" /\ poolCall = "none" /\ poolOps < MaxPoolOps
  /\ InitializeBegin(<<type>>)
  /\ poolCall' = "init"
  /\ poolArg' = <<type>>
  /\ poolOps' = poolOps + 1
  /\ UNCHANGED <<inputVars, browsers, contexts, openHandles, orphans, cleanVars,
                 csVars, procVars, wfVars, epochReturns, askedAfterReturn, cacheHit, micro>>

\* createContext(device, browserType) up to `await browser.newContext(...)`
PoolCreateContext(type, name) ==
  /\ micro = "none" /\ poolCall = "none" /\ poolOps < MaxPoolOps
  /\ poolOps' = poolOps + 1
  /\ LET r == CreateContextSync(type, name)
     IN /\ poolArg' = <<type, name, r>>
        /\ poolCall' = IF r = "miss" THEN "ctx" ELSE "none"
        /\ epochReturns' =
             IF r = "hit"
             THEN epochReturns \cup {<<type, name, CacheGet(ContextKey(type, name))>>}
             ELSE epochReturns
        /\ cacheHit' = (cacheHit \/ r = "hit")
        /\ askedAfterReturn' =
             (askedAfterReturn
                \/ (r = "miss" /\ \E e \in epochReturns : e[1] = type /\ e[2] = name))
  /\ UNCHANGED <<inputVars, poolVars, initVars, cleanVars, csVars, procVars, wfVars, micro>>

\* `await browser.newContext(...)` settles: this.contexts.set(contextKey, context)
PoolNewContextDone(ok) ==
  /\ micro = "none" /\ poolCall = "ctx"
  /\ poolCall' = "none"
  /\ IF ok
     THEN /\ contexts' = CacheSet(ContextKey(poolArg[1], poolArg[2]), <<0, poolOps>>)
          /\ epochReturns' = epochReturns \cup {<<poolArg[1], poolArg[2], <<0, poolOps>>>>}
     ELSE UNCHANGED <<contexts, epochReturns>>
  /\ UNCHANGED <<inputVars, browsers, openHandles, nextHandle, pendingLaunch, orphans,
                 relaunched, initVars, cleanVars, csVars, procVars, wfVars,
                 poolArg, poolOps, askedAfterReturn, cacheHit, micro>>

PoolCleanup ==
  /\ micro = "none" /\ poolCall = "none" /\ poolOps < MaxPoolOps
  /\ CleanupBegin
  /\ poolCall' = "cleanup"
  /\ poolArg' = <<>>
  /\ poolOps' = poolOps + 1
  /\ micro' = "sweep"
  /\ UNCHANGED <<inputVars, poolVars, initVars, csVars, procVars, wfVars,
                 epochReturns, askedAfterReturn, cacheHit>>

\* the caller's await of initializeBrowser / cleanup returns
PoolReturn ==
  /\ micro = "client"
  /\ micro' = "none"
  /\ poolCall' = "none"
  /\ initPc' = "idle"
  /\ cleanupPc' = "idle"
  /\ UNCHANGED <<inputVars, poolVars, initAwait, cleanupIdx, cleanupHandle, cleanupStart,
                 closeAttempted, closeFailed, csVars, procVars, wfVars,
                 poolArg, poolOps, epochReturns, askedAfterReturn, cacheHit>>

InitPool ==
  /\ impl = "multi"
  /\ devices = <<>>
  /\ browserTypes = DefaultBrowserTypes
  /\ maxParallelBrowsers = DefaultMaxParallel
  /\ PoolInit /\ CaptureInit /\ IdleInit /\ ExtraIdle /\ FsIdle /\ DiffIdle /\ ReportIdle /\ CompareIdle /\ CliIdle /\ DmIdle

NextPool ==
  \/ \E type \in PoolEngines : PoolInitializeBrowser(type)
  \/ \E l \in pendingLaunch, ok \in BOOLEAN : LaunchDone(l, ok)
  \/ \E type \in PoolEngines, k \in 1..Len(DeviceNames) : PoolCreateContext(type, DeviceNames[k])
  \/ \E ok \in BOOLEAN : PoolNewContextDone(ok)
  \/ PoolCleanup
  \/ CleanupNext
  \/ CleanupFinish
  \/ \E ok \in BOOLEAN : BrowserCloseDone(ok)
  \/ PoolReturn

SpecPool == InitPool /\ [][NextPool]_vars

\* ------------------------------------------------------------------ PixelPerfect
CleanupOnSuccessOnly(err) == ~err
\* updateBaseline: finally { await this.screenshotManager.cleanup() }
FinallyCleanup(err) == TRUE

\* the workflow leaves its try block, with an error or without: updateBaseline
\* runs its finally block, run() has none and settles
Leave(err) ==
  IF wf = "updateBaseline" /\ FinallyCleanup(err)
  THEN /\ wfPc' = "cleanup"
       /\ wfError' = err
       /\ wfCleanups' = wfCleanups + 1
       /\ CleanupBegin
       /\ micro' = "sweep"
  ELSE /\ wfPc' = "settled"
       /\ wfError' = err
       /\ micro' = "none"
       /\ UNCHANGED <<wfCleanups, cleanVars>>

\* run() / updateBaseline() is called: deviceManager.initialize(), after which
\* getDevices() is the list `devices` (a list initialize() of DeviceManager.ts
\* has doubled is among DeviceLists), then screenshotManager.initialize()
\* launches the default browser; what the last workflow worked out is forgotten
WorkflowStart(kind) ==
  /\ micro = "none" /\ poolCall = "none"
  /\ wfPc \in {"none", "settled"}
  /\ wfCount < MaxWorkflows
  /\ wf' = kind
  /\ wfCount' = wfCount + 1
  /\ wfPc' = "init"
  /\ wfCleanups' = 0
  /\ wfError' = FALSE
  /\ moveIdx' = 0
  /\ wfHandles' = {nextHandle}
  /\ wfDiffs' = <<>>
  /\ wfReport' = NoReportYet
  /\ afterBaseline' = (wfPc = "settled" /\ wf = "updateBaseline" /\ ~wfError)
  /\ InitializeBegin(DefaultBrowserTypes)
  /\ UNCHANGED <<configVars, files, browsers, contexts, openHandles, orphans, cleanVars,
                 csVars, procVars, clientVars, micro>>

\* after `await this.screenshotManager.initialize()`
AfterInitialize ==
  /\ micro = "wf" /\ wfPc = "init"
  /\ IF initPc = "resolved"
     THEN IF wf = "run"
          THEN /\ CaptureScreenshotsBegin
               /\ wfPc' = "capture"
               /\ micro' = "loop"
               /\ UNCHANGED <<wfError, wfCleanups, cleanVars>>
          ELSE /\ wfPc' = "mkdir"
               /\ micro' = "none"
               /\ UNCHANGED <<csVars, wfError, wfCleanups, cleanVars>>
     ELSE /\ Leave(TRUE)
          /\ UNCHANGED csVars
  /\ UNCHANGED <<inputVars, poolVars, initVars, procVars, wf, wfCount, wfHandles,
                 moveIdx, clientVars>>

\* after `await fs.mkdir(baselineDir, { recursive: true })`
MkdirDone(ok) ==
  /\ micro = "none" /\ wfPc = "mkdir"
  /\ IF ok
     THEN /\ CaptureScreenshotsBegin
          /\ wfPc' = "capture"
          /\ micro' = "loop"
          /\ UNCHANGED <<wfError, wfCleanups, cleanVars>>
     ELSE /\ Leave(TRUE)
          /\ UNCHANGED csVars
  /\ UNCHANGED <<inputVars, poolVars, initVars, procVars, wf, wfCount, wfHandles,
                 moveIdx, clientVars>>

\* after `await this.screenshotManager.captureScreenshots(...)`
AfterCapture ==
  /\ micro = "wf" /\ wfPc = "capture"
  /\ IF csPc = "thrown"
     THEN /\ Leave(TRUE)
          /\ UNCHANGED moveIdx
     ELSE IF wf = "run"
          THEN /\ wfPc' = "compare"
               /\ micro' = "none"
               /\ UNCHANGED <<wfError, wfCleanups, cleanVars, moveIdx>>
          ELSE IF Len(screenshots) = 0
               THEN /\ Leave(FALSE)
                    /\ UNCHANGED moveIdx
               ELSE /\ wfPc' = "move"
                    /\ moveIdx' = 1
                    /\ micro' = "none"
                    /\ UNCHANGED <<wfError, wfCleanups, cleanVars>>
  /\ UNCHANGED <<inputVars, poolVars, initVars, csVars, procVars, wf, wfCount,
                 wfHandles, clientVars>>

\* after `await this.diffManager.compare(screenshots)`
CompareDone(ok) ==
  /\ micro = "none" /\ wfPc = "compare"
  /\ IF ok /\ ~CompareThrows(files, screenshots)
     THEN /\ wfPc' = "generate"
          /\ wfDiffs' = CompareFiles(files, screenshots)
          /\ UNCHANGED <<wfError, wfCleanups, cleanVars, micro>>
     ELSE /\ Leave(TRUE)
          /\ UNCHANGED wfDiffs
  /\ UNCHANGED <<configVars, files, wfReport, afterBaseline, poolVars, initVars, csVars, procVars, wf, wfCount,
                 wfHandles, moveIdx, clientVars>>

\* after `await this.reportManager.generate(screenshots, diffs)`
GenerateDone(ok) ==
  /\ micro = "none" /\ wfPc = "generate"
  /\ Leave(~ok)
  /\ wfReport' = IF ok THEN Cardinality({i \in 1..Len(wfDiffs) : wfDiffs[i]})
                 ELSE wfReport
  /\ UNCHANGED <<configVars, files, wfDiffs, afterBaseline, poolVars, initVars, csVars, procVars, wf, wfCount,
                 wfHandles, moveIdx, clientVars>>

\* after `await fs.rename(screenshot.filepath, baselinePath)`
RenameDone(ok) ==
  /\ micro = "none" /\ wfPc = "move"
  /\ IF ~ok \/ RenameFails(files, screenshots[moveIdx])
     THEN /\ Leave(TRUE)
          /\ UNCHANGED <<moveIdx, files>>
     ELSE /\ files' = RenameFile(files, screenshots[moveIdx])
          /\ IF moveIdx < Len(screenshots)
             THEN /\ moveIdx' = moveIdx + 1
                  /\ UNCHANGED <<wfPc, wfError, wfCleanups, cleanVars, micro>>
             ELSE /\ Leave(FALSE)
                  /\ UNCHANGED moveIdx
  /\ UNCHANGED <<configVars, wfDiffs, wfReport, afterBaseline, poolVars, initVars, csVars, procVars, wf, wfCount,
                 wfHandles, clientVars>>

\* after `await this.screenshotManager.cleanup()` in the finally block
AfterCleanup ==
  /\ micro = "wf" /\ wfPc = "cleanup"
  /\ wfPc' = "settled"
  /\ wfError' = (wfError \/ cleanupPc = "thrown")
  /\ cleanupPc' = "idle"
  /\ micro' = "none"
  /\ UNCHANGED <<inputVars, poolVars, initVars, cleanupIdx, cleanupHandle, cleanupStart,
                 closeAttempted, closeFailed, csVars, procVars, wf, wfCount, wfCleanups,
                 wfHandles, moveIdx, clientVars>>

\* config.maxParallelBrowsers, as the CLI sets it from --parallel
ConfiguredParallel == 1..MaxParallel

\* `this.screenshotManager = new ScreenshotManager()` in the constructor of
\* PixelPerfect: no argument is passed, whatever config.maxParallelBrowsers
\* is, and the manager's batch size is the parameter's default
NewScreenshotManager(configured) == DefaultMaxParallel

\* new PixelPerfect(config): a ScreenshotManager with the default cap, the
\* default browser list; run() and updateBaseline() are called one after
\* another; the output directory holds the baselines of an earlier version of
\* the page
InitOrch ==
  /\ impl = "multi"
  /\ devices \in {s \in DeviceLists : Len(s) <= MaxOrchDevices}
  /\ browserTypes = DefaultBrowserTypes
  /\ \E configured \in ConfiguredParallel :
       maxParallelBrowsers = NewScreenshotManager(configured)
  /\ PoolInit /\ CaptureInit /\ IdleInit /\ ExtraIdle /\ DiffIdle /\ ReportIdle /\ CompareIdle /\ CliIdle /\ DmIdle
  /\ files = OldBaselines
  /\ wfDiffs = <<>> /\ wfReport = NoReportYet /\ afterBaseline = FALSE

NextOrch ==
  \/ \E kind \in {"run", "updateBaseline"} : WorkflowStart(kind)
  \/ \E l \in pendingLaunch, ok \in BOOLEAN : LaunchDone(l, ok)
  \/ AfterInitialize
  \/ \E ok \in BOOLEAN : MkdirDone(ok)
  \/ StartBatch
  \/ CaptureReturn
  \/ BatchSettled
  \/ \E p \in Procs, ok \in BOOLEAN : NewContextDone(p, ok)
  \/ \E p \in Procs, ok \in BOOLEAN : NewPageDone(p, ok)
  \/ \E p \in Procs, ok \in BOOLEAN : GotoDone(p, ok)
  \/ \E p \in Procs : GotoIdleTimeout(p)
  \/ \E p \in Procs, ok \in BOOLEAN : SettleDone(p, ok)
  \/ \E p \in Procs, ok \in BOOLEAN : ScreenshotDone(p, ok)
  \/ \E p \in Procs, ok \in BOOLEAN : PageCloseDone(p, ok)
  \/ AfterCapture
  \/ \E ok \in BOOLEAN : CompareDone(ok)
  \/ \E ok \in BOOLEAN : GenerateDone(ok)
  \/ \E ok \in BOOLEAN : RenameDone(ok)
  \/ CleanupNext
  \/ CleanupFinish
  \/ \E ok \in BOOLEAN : BrowserCloseDone(ok)
  \/ AfterCleanup

SpecOrch == InitOrch /\ [][NextOrch]_vars

\* the same PixelPerfect with a short device list, for the scenarios that take
\* two whole workflows
InitScenario == InitOrch /\ Len(devices) <= MaxScenarioDevices
SpecScenario == InitScenario /\ [][NextOrch]_vars

\* ------------------------------------------------------ DiffManager, one comparison
\* either DiffManager (src/src/core/DiffManager.ts: threshold only; the smart
\* one: all options), one screenshot of the capture pipeline, its baseline
\* present or not, of the same size or not
InitDiff ==
  /\ impl = "multi"
  /\ devices = <<>>
  /\ browserTypes = DefaultBrowserTypes
  /\ maxParallelBrowsers = DefaultMaxParallel
  /\ PoolInit /\ CaptureInit /\ IdleInit /\ ExtraIdle /\ FsIdle /\ ReportIdle /\ CompareIdle /\ CliIdle /\ DmIdle
  /\ dimpl \in {"basic", "smart"}
  /\ options \in (IF dimpl = "basic" THEN {BasicOptions(t) : t \in 0..MaxThreshold}
                  ELSE DiffOptions)
  /\ device = "Desktop"
  /\ filepath \in FilePaths
  /\ current \in Images
  /\ baseline \in {{}} \cup {{b} : b \in Images}
  /\ aaPixels \in SUBSET {0}
  /\ DiffStart

NextDiff ==
  \/ CompareCall
  \/ AccessDone
  \/ \E ok \in BOOLEAN : DecodeDone(ok)
  \/ \E ok \in BOOLEAN : MetadataDone(ok)
  \/ \E ok \in BOOLEAN : WriteDone(ok)

SpecDiff == InitDiff /\ [][NextDiff]_vars

\* ------------------------------------------------------------- one report
\* a ReportManager and a DiffManager, one report being generated from
\* arbitrary screenshot and diff lists
InitReport ==
  /\ impl = "multi" /\ devices = <<>> /\ browserTypes = DefaultBrowserTypes
  /\ maxParallelBrowsers = DefaultMaxParallel
  /\ PoolInit /\ CaptureInit /\ IdleInit /\ ExtraIdle /\ FsIdle /\ DiffIdle /\ CompareIdle /\ CliIdle /\ DmIdle
  /\ rKind = "none" /\ rPc = "idle" /\ report = NoReport
  /\ rScreenshots \in ReportScreenshots
  /\ rDiffs \in ReportDiffs

NextReport ==
  \/ GenerateCall
  \/ \E ok \in BOOLEAN : ReportMkdirDone(ok)
  \/ \E ok \in BOOLEAN : ReportWriteDone(ok)
  \/ \E ok \in BOOLEAN : ReportHtmlDone(ok)
  \/ GenerateDiffReportCall

SpecReport == InitReport /\ [][NextReport]_vars

\* ------------------------------------------------- DiffManager, a list compared
\* a DiffManager of either iteration and one compare() call on a list of
\* screenshots with arbitrary files behind them
InitCompare ==
  /\ impl = "multi" /\ devices = <<>> /\ browserTypes = DefaultBrowserTypes
  /\ maxParallelBrowsers = DefaultMaxParallel
  /\ PoolInit /\ CaptureInit /\ IdleInit /\ ExtraIdle /\ FsIdle /\ ReportIdle /\ CliIdle /\ DmIdle
  /\ dimpl \in {"basic", "smart"}
  /\ options = (IF dimpl = "basic" THEN BasicOptions(0) ELSE DefaultOptions)
  /\ device = "" /\ filepath = NoPath
  /\ current = [width |-> 1, height |-> 1, px |-> [i \in {0} |-> 0]]
  /\ baseline = {}
  /\ aaPixels = {}
  /\ DiffStart
  /\ cmpScreenshots \in SeqsUpTo(CompareInputs, MaxCompare)
  /\ cmpPc = "idle" /\ cmpIdx = 0 /\ cmpDiffs = <<>>

NextCompare ==
  \/ CompareBegin
  \/ AccessDone
  \/ \E ok \in BOOLEAN : DecodeDone(ok)
  \/ \E ok \in BOOLEAN : MetadataDone(ok)
  \/ \E ok \in BOOLEAN : WriteDone(ok)
  \/ CompareResume
  \/ CompareRethrow

SpecCompare == InitCompare /\ [][NextCompare]_vars

\* ------------------------------------------------------------- one command
\* one command of one CLI entry point; what the capture and the comparison of
\* a run hand to the report is arbitrary
InitCli ==
  /\ impl = "multi" /\ devices = <<>> /\ browserTypes = DefaultBrowserTypes
  /\ maxParallelBrowsers = DefaultMaxParallel
  /\ PoolInit /\ CaptureInit /\ IdleInit /\ ExtraIdle /\ FsIdle /\ DiffIdle /\ CompareIdle /\ DmIdle
  /\ rKind = "none" /\ rPc = "idle" /\ report = NoReport
  /\ rScreenshots \in ReportScreenshots
  /\ rDiffs \in ReportDiffs
  /\ CliIdle

NextCli ==
  \/ \E entry \in CliEntries, command \in CliCommands : CliStart(entry, command)
  \/ \E ok \in BOOLEAN : CliWorkflowDone(ok)
  \/ \E ok \in BOOLEAN : ReportMkdirDone(ok)
  \/ \E ok \in BOOLEAN : ReportWriteDone(ok)
  \/ \E ok \in BOOLEAN : ReportHtmlDone(ok)
  \/ CliRunDone

SpecCli == InitCli /\ [][NextCli]_vars

\* ------------------------------------------------- one orchestrator constructed
\* device names given on the command line or to the library, resolved by
\* either DeviceManager, up to the start of the first captures
InitDm ==
  /\ impl = "multi" /\ devices = <<>> /\ browserTypes = DefaultBrowserTypes
  /\ maxParallelBrowsers = DefaultMaxParallel
  /\ PoolInit /\ CaptureInit /\ IdleInit /\ ExtraIdle /\ FsIdle /\ DiffIdle /\ ReportIdle /\ CompareIdle /\ CliIdle
  /\ dmImpl \in {"BrowserManager.ts", "DeviceManager.ts"}
  /\ dmEntry \in (IF dmImpl = "BrowserManager.ts" THEN {"cli", "library"} ELSE {"cli"})
  /\ deviceNames \in SeqsUpTo(AskedNames, MaxNames)
  /\ configDevices = <<>> /\ dmDevices = <<>> /\ dmPc = "idle"
  /\ dmError = "none" /\ dmLaunched = FALSE

NextDm ==
  \/ DmConstruct
  \/ DmInitialize
  \/ \E ok \in BOOLEAN : DmLaunchDone(ok)
  \/ DmCaptureStart

SpecDm == InitDm /\ [][NextDm]_vars

\* ------------------------------------------------------------------ properties

\* C1: at no point during captureScreenshots are more than maxParallelBrowsers
\* captureScreenshot operations in flight at the same time.
C1_BatchSizeInvariant ==
  csPc = "running" =>
    Cardinality({p \in Procs : p[1] = csCall /\ InFlight(p)}) <= maxParallelBrowsers

\* C2: no capture of a later batch is started while a capture of an earlier
\* batch of the same call is unsettled, also when members of the earlier batch fail.
C2_StrictBatchSequencing ==
  LET batch == [t \in Targets |-> BatchOf(t)]
  IN \A p, q \in Procs :
       (p[1] = q[1] /\ tpc[q] # "none" /\ batch[p[2]] < batch[q[2]]) => Settled(p)

\* a member of an earlier batch failed and a member of a later batch has started
C2_LaterBatchAfterFailure ==
  \E p, q \in Procs :
    /\ p[1] = q[1] /\ tpc[p] = "rejected" /\ tpc[q] # "none"
    /\ BatchOf(p[2]) < BatchOf(q[2])

\* C3: when the capture of a target fails, captureScreenshots still completes
\* normally and returns exactly the records of the targets that did not fail.
C3_PartialFailureContainment ==
  /\ csPc # "thrown"
  /\ csPc = "returned" =>
       /\ \A t \in Targets : Settled(<<csCall, t>>)
       /\ \A t \in Targets :
            Cardinality({i \in 1..Len(screenshots) : screenshots[i] = Record(t)})
              = Cardinality({u \in Targets : Record(u) = Record(t)
                                             /\ tpc[<<csCall, u>>] = "fulfilled"})

\* C4: once captureScreenshots has settled, what it returned holds at most
\* |D|x|E| records, no two for the same (device, engine) pair, and exactly one
\* for every pair whose navigation succeeded (device names pairwise distinct).
C4_OneRecordPerNavigatedPair ==
  LET returned == IF csPc = "returned" THEN screenshots ELSE <<>>
      navigated(p) == gotoCalls[p] > gotoFails[p] /\ tpc[p] # "goto"
      count(t) == Cardinality({i \in 1..Len(returned) : returned[i] = Record(t)})
  IN (/\ csPc \in {"returned", "thrown"}
      /\ \A i, j \in 1..Len(devices) : devices[i] = devices[j] => i = j)
     => /\ Len(returned) <= Len(devices) * Len(browserTypes)
        /\ \A t \in Targets : count(t) <= 1
        /\ \A t \in Targets : navigated(<<csCall, t>>) => count(t) = 1

\* C5: in the retrying captureScreenshot, page.goto is attempted at most 3 times
\* per target, attempt k+1 only after attempt k failed and after the backoff
\* that follows it; a success ends the loop and the capture goes on; the 3rd
\* failure fails the target, and only this target.
C5_NavigationRetry ==
  impl = "retry" =>
    /\ \A p \in Procs :
         /\ gotoCalls[p] <= 3
         /\ gotoCalls[p] <= gotoFails[p] + 1
         /\ gotoCalls[p] >= 1 => backoffs[p] = gotoCalls[p] - 1
         /\ tpc[p] \in {"goto", "backoff"} => gotoFails[p] = gotoCalls[p] - (IF tpc[p] = "goto" THEN 1 ELSE 0)
         /\ (gotoCalls[p] > gotoFails[p] /\ tpc[p] # "goto")
              => tpc[p] \in {"netidle", "screenshot", "close", "fulfilled", "rejected"}
         /\ gotoFails[p] = 3 => (terr[p] /\ tpc[p] \in {"close", "rejected"})
    /\ csPc # "thrown"
    /\ csPc = "returned" =>
         \A t \in Targets :
           Cardinality({i \in 1..Len(screenshots) : screenshots[i] = Record(t)})
             = Cardinality({u \in Targets : Record(u) = Record(t)
                                            /\ tpc[<<csCall, u>>] = "fulfilled"})

\* one target exhausted its three attempts, another succeeded on a retry, and
\* captureScreenshots returned the record of the second
C5_ExhaustedAndRetried ==
  /\ impl = "retry" /\ csPc = "returned"
  /\ \E p, q \in Procs :
       /\ p[1] = csCall /\ q[1] = csCall
       /\ gotoFails[p] = 3 /\ tpc[p] = "rejected"
       /\ gotoFails[q] >= 1 /\ tpc[q] = "fulfilled"
       /\ \E i \in 1..Len(screenshots) : screenshots[i] = Record(q[2])

\* C6: initializeBrowser for an engine kind that is already in the pool launches
\* no second browser and leaves no launched browser open but unreachable.
C6_InitializeIdempotent ==
  /\ ~relaunched
  /\ orphans = {}

\* C7: between an initialize and the next cleanup, createContext calls made one
\* after another return the same context exactly when engine and device name
\* are the same, and never ask the browser again for a pair already served.
C7_ContextCacheReuse ==
  /\ ~askedAfterReturn
  /\ \A r1, r2 \in epochReturns :
       (r1[1] = r2[1] /\ r1[2] = r2[2]) <=> r1[3] = r2[3]

\* a call was served from the cache while another pair holds its own context
C7_CacheHitAmongSeveral ==
  /\ cacheHit
  /\ \E r1, r2 \in epochReturns : r1[3] # r2[3]

\* C8: cleanup attempts to close every handle the pool holds even when an
\* earlier close fails, never throws, and returns with no handle and no context.
C8_CleanupSweepsAll ==
  /\ cleanupPc # "thrown"
  /\ cleanupPc = "returned" =>
       /\ cleanupStart \subseteq closeAttempted
       /\ browsers = <<>>
       /\ contexts = {}
       /\ Len(browsers) = 0

\* cleanup returned from a pool of two browsers whose closes both failed
C8_AllClosesFailed ==
  /\ cleanupPc = "returned"
  /\ Cardinality(cleanupStart) >= 2
  /\ closeFailed = cleanupStart

\* C9: whenever run() has settled, pool cleanup has been performed and no
\* browser launched by the run remains open.
C9_RunReleasesResources ==
  (wf = "run" /\ wfPc = "settled") =>
    /\ wfCleanups >= 1
    /\ wfHandles \cap openHandles = {}

C11_NoContextAcrossRuns ==
  \A p \in Procs : tpage[p] # "none" => tctx[p][1] = p[1]

\* C12: every page opened by captureScreenshot has been closed by the time that
\* captureScreenshot call settles, on success and on failure.
C12_ScopedPageRelease ==
  \A p \in Procs : (Settled(p) /\ tpage[p] # "none") => tpage[p] = "closed"

\* C13: captureScreenshots called while an engine it needs is not in the pool
\* does not return a list of records.
C13_NotInitialisedPropagates ==
  csPc = "returned" => \A t \in Targets : MapHas(browsers, TBrowser(t))

\* C14: a createContext call for an engine that is not in the pool throws, asks
\* for no context and leaves the engine map and the context cache unchanged.
C14_CreateContextNeedsEngine ==
  [][(/\ poolOps' # poolOps
      /\ Len(poolArg') = 3
      /\ ~MapHas(browsers, poolArg'[1]))
     => (/\ poolArg'[3] = "throw"
         /\ poolCall' = "none"
         /\ browsers' = browsers
         /\ contexts' = contexts
         /\ epochReturns' = epochReturns)]_vars

\* createContext threw on a pool that had launched browsers and was cleaned up
C14_ThrewAfterCleanup ==
  /\ Len(poolArg) = 3 /\ poolArg[3] = "throw"
  /\ browsers = <<>> /\ contexts = {}
  /\ closeAttempted # {}

\* C15: when the baseline file does not exist, the comparison never throws and
\* yields exactly the no-baseline record, decoding no image and writing no file.
C15_MissingBaseline ==
  baseline = {} =>
    /\ dPc \in {"idle", "access", "returned"}
    /\ decodedFiles = {} /\ writtenFiles = {}
    /\ dPc = "returned" =>
         /\ diffResult.hasDiff = FALSE
         /\ diffResult.diffPercentage[1] = 0
         /\ diffResult.diffPath = NoPath
         /\ diffResult.message = "No baseline available for comparison"

\* a comparison without baseline has returned
C15_ReturnedWithoutBaseline ==
  baseline = {} /\ dPc = "returned"

\* C16: in every returned DiffRecord diffPath is non-null iff hasDiff, and a diff
\* image, the current path with the suffix -diff, was written iff hasDiff.
C16_DiffPathIffHasDiff ==
  dPc = "returned" =>
    /\ diffResult.diffPath # NoPath <=> diffResult.hasDiff
    /\ writtenFiles # {} <=> diffResult.hasDiff
    /\ diffResult.hasDiff =>
         /\ writtenFiles = {diffResult.diffPath}
         /\ diffResult.diffPath =
              SubSeq(filepath, 1, Len(filepath) - 1) \o <<"-diff.png">>

\* C17: for a record produced from an existing baseline, diffPercentage is
\* 100 * differingCount / (width * height) of the current image, within 0..100,
\* hasDiff holds exactly when differingCount > 0; diffPercentage is 0 exactly
\* when there was no baseline or nothing was counted.
C17_PercentageFormula ==
  dPc = "returned" =>
    LET differingCount ==
          Cardinality({i \in 0..(current.width * current.height - 1) :
             /\ Delta(currentImage.px[i], baselineImage.px[i]) > options.threshold
             /\ (~options.ignoreAntialiasing \/ i \notin aaPixels)})
        percentage == diffResult.diffPercentage
    IN /\ baseline # {} =>
            /\ percentage[1] * current.width * current.height
                 = 100 * differingCount * percentage[2]
            /\ percentage[2] > 0
            /\ 0 <= percentage[1] /\ percentage[1] <= 100 * percentage[2]
            /\ diffResult.hasDiff <=> differingCount > 0
       /\ percentage[1] = 0 <=> (baseline = {} \/ differingCount = 0)

\* a record with some but not all pixels counted as differing
C17_PartialDifference ==
  /\ dPc = "returned" /\ baseline # {}
  /\ 0 < diffPixels /\ diffPixels < current.width * current.height
  /\ diffResult.hasDiff

\* C18: with ignoreRegions, a differing pixel inside a region does not count
\* for diffPercentage and hasDiff; if all differing pixels are inside regions
\* the record has hasDiff = false, diffPercentage = 0 and diffPath = null.
C18_RegionsExcludedFromStatistic ==
  (dPc = "returned" /\ baseline # {} /\ options.ignoreRegions # {}) =>
    LET width == current.width
        height == current.height
        outside ==
          Pixelmatch(currentImage, baselineImage, width, height, options.threshold,
                     ~options.ignoreAntialiasing)
            \ RegionPixels(options.ignoreRegions, width, height)
    IN /\ diffResult.diffPercentage[1] * width * height
            = 100 * Cardinality(outside) * diffResult.diffPercentage[2]
       /\ diffResult.hasDiff <=> outside # {}
       /\ outside = {} => diffResult.diffPath = NoPath

\* C19: for fixed images and other options, ignore regions covering a superset
\* of the pixels give a diffPercentage that is not larger.
C19_RegionMonotonicity ==
  (dPc = "returned" /\ baseline # {}) =>
    LET width == current.width
        height == current.height
        counted == Pixelmatch(currentImage, baselineImage, width, height,
                              options.threshold, ~options.ignoreAntialiasing)
        drawn == PixelmatchOutput(currentImage, baselineImage, width, height,
                                  options.threshold)
        output(regions) == IF regions # {}
                           THEN ApplyIgnoreRegions(drawn, regions, width, height)
                           ELSE drawn
        percentage(regions) ==
          DiffPercentage(DiffPixels(counted, output(regions)), width, height)
    IN \A larger \in SUBSET Rects :
         RegionPixels(options.ignoreRegions, width, height)
             \subseteq RegionPixels(larger, width, height)
           => /\ percentage(larger)[1] * diffResult.diffPercentage[2]
                   <= diffResult.diffPercentage[1] * percentage(larger)[2]
              /\ percentage(options.ignoreRegions) = diffResult.diffPercentage

\* a record with differing pixels, whose regions can be enlarged over them
C19_DifferenceAndLargerRegions ==
  /\ dPc = "returned" /\ baseline # {} /\ diffResult.hasDiff
  /\ \E larger \in SUBSET Rects :
       /\ RegionPixels(options.ignoreRegions, current.width, current.height)
            # RegionPixels(larger, current.width, current.height)
       /\ RegionPixels(options.ignoreRegions, current.width, current.height)
            \subseteq RegionPixels(larger, current.width, current.height)
       /\ RegionPixels(larger, current.width, current.height) \cap diffImage # {}

C21_SummaryConsistency ==
  report # NoReport =>
    /\ report.summary.totalDevices = Len(report.screenshots)
    /\ report.summary.devicesWithDiffs
         = Cardinality({i \in 1..Len(report.diffs) : report.diffs[i].hasDiff})
    /\ report.summary.totalDiffs = report.summary.devicesWithDiffs

\* C26: DiffManager.compare(screenshots), when it succeeds, returns exactly one
\* DiffRecord per input ScreenshotRecord, in input order, the i-th record
\* carrying the device name of the i-th screenshot; the comparison of
\* screenshot i+1 does not start before the comparison of screenshot i has
\* finished.
C26_OneRecordPerScreenshotInOrder ==
  [][/\ cmpPc' = "returned" =>
          /\ Len(cmpDiffs') = Len(cmpScreenshots)
          /\ \A i \in 1..Len(cmpScreenshots) :
               cmpDiffs'[i].device = cmpScreenshots[i].device
     /\ cmpIdx' # cmpIdx =>
          /\ cmpIdx' = cmpIdx + 1
          /\ cmpIdx > 0 => (dPc = "returned" /\ Len(cmpDiffs') = cmpIdx)
     /\ (dPc' = "access" /\ dPc # "access") => cmpIdx' # cmpIdx]_vars

\* compare() returned two records for screenshots of two different devices,
\* one without a baseline and one that differs from its baseline
C26_TwoDevicesCompared ==
  /\ cmpPc = "returned" /\ Len(cmpDiffs) = 2
  /\ cmpScreenshots[1].device # cmpScreenshots[2].device
  /\ cmpDiffs[1].hasDiff /\ cmpScreenshots[2].baseline = {}

\* C27 (as amended): the list captureScreenshots builds holds the records of
\* the collected batches in batch order and, inside a batch, in the order of
\* the targets (the input devices, each expanded over the browser types),
\* whatever the order the captures completed in; the returned (device,
\* browser) pairs form a subsequence of that target list.
C27_ResultInTargetOrder ==
  csPc \in {"running", "returned"} =>
    LET n == Len(devices) * NE
        batch == [t \in Targets |-> BatchOf(t)]
        collected == [t \in Targets |->
                        /\ tpc[<<csCall, t>>] = "fulfilled"
                        /\ \/ batch[t] < batchNo
                           \/ batch[t] = batchNo /\ (micro = "loop" \/ csPc = "returned")]
        ordered[t \in 0..n] ==
          IF t = 0 THEN <<>>
          ELSE ordered[t - 1] \o (IF collected[t] THEN <<Record(t)>> ELSE <<>>)
        pos[i \in 0..Len(screenshots)] ==
          IF i = 0 THEN 0
          ELSE LET later == {t \in (pos[i - 1] + 1)..n : Record(t) = screenshots[i]}
               IN IF later = {} THEN n + 1
                  ELSE CHOOSE t \in later : \A u \in later : t <= u
    IN /\ screenshots = ordered[n]
       /\ pos[Len(screenshots)] <= n

\* C27 (as stated): the same order, and the returned device names form a
\* subsequence of the input device list.
C27_DeviceNamesSubsequence ==
  /\ C27_ResultInTargetOrder
  /\ csPc = "returned" =>
       LET n == Len(devices)
           pos[i \in 0..Len(screenshots)] ==
             IF i = 0 THEN 0
             ELSE LET later == {j \in (pos[i - 1] + 1)..n :
                                  devices[j] = screenshots[i].device}
                  IN IF later = {} THEN n + 1
                     ELSE CHOOSE j \in later : \A u \in later : j <= u
       IN pos[Len(screenshots)] <= n

\* the records of the first batch are collected, and in the second batch a
\* later target has completed while an earlier one is still being captured
C27_CompletedOutOfOrder ==
  /\ csPc = "running" /\ batchNo = 2 /\ Len(screenshots) = 2
  /\ \E t \in Targets, u \in Targets :
       /\ t < u /\ BatchOf(t) = 2 /\ BatchOf(u) = 2
       /\ InFlight(<<csCall, t>>) /\ tpc[<<csCall, u>>] = "fulfilled"

\* C28: for every device list and every batchSize >= 1, the concatenation of
\* the batches createBatches returns is the input list, every batch is
\* non-empty and has at most batchSize devices, and every batch but the last
\* has exactly batchSize devices.
C28_BatchPartitioning ==
  LET batches == CreateBatches(devices, maxParallelBrowsers)
      concatenation[b \in 0..Len(batches)] ==
        IF b = 0 THEN <<>> ELSE concatenation[b - 1] \o batches[b]
  IN /\ concatenation[Len(batches)] = devices
     /\ \A b \in 1..Len(batches) :
          /\ Len(batches[b]) >= 1
          /\ Len(batches[b]) <= maxParallelBrowsers
          /\ b < Len(batches) => Len(batches[b]) = maxParallelBrowsers

\* a capture that went through a full batch and a shorter last batch
C28_FullAndPartialBatch ==
  /\ csPc = "returned" /\ batchNo = 2
  /\ Len(devices) = 3 /\ maxParallelBrowsers = 2
  /\ Len(screenshots) = 3

\* C29: once navigation has succeeded, a timeout of the network-idle wait or
\* a failure of the dynamic-content settle pass never makes the target's
\* capture fail: the screenshot step is executed next.
C29_BestEffortWaitsNeverFatal ==
  [][\A p \in Procs :
       (NetIdleDone(p, FALSE) \/ SettleDone(p, FALSE) \/ GotoIdleTimeout(p))
         => tpc'[p] = "screenshot"]_vars

\* C30: when PixelPerfect is constructed with maxParallelBrowsers = k, at no
\* point during run() or updateBaseline() are more than k captures in flight.
\* (The constructor gives the same ScreenshotManager for every k, so a state
\* reached under one configured k is reached under every k.)
C30_ConfiguredCapHonoured ==
  \A k \in ConfiguredParallel :
    maxParallelBrowsers = NewScreenshotManager(k) =>
      Cardinality({p \in Procs : InFlight(p)}) <= k

\* C24: at every CLI entry point the test command ends with exit code 1 when
\* the run throws or the report has summary.devicesWithDiffs > 0, and with
\* exit code 0 only when the run completed with no diffs; the update-baseline
\* command ends with 0 on success and 1 on any error.
C24_ExitStatus ==
  cliPc = "exited" =>
    IF cliCommand = "test"
    THEN /\ exitCode \in {0, 1}
         /\ exitCode = 1 <=> (cliError \/ report.summary.devicesWithDiffs > 0)
    ELSE exitCode = (IF cliError THEN 1 ELSE 0)

\* C25: a device name that is not in the catalog makes the construction of
\* the orchestrator fail with an unknown-device error, before any browser is
\* launched and any capture starts; no undefined device profile reaches the
\* capture pipeline.
C25_UnknownDeviceRejectedUpFront ==
  (\E i \in 1..Len(deviceNames) : deviceNames[i] \notin Catalog) =>
    /\ dmPc \in {"idle", "rejected"}
    /\ dmPc = "rejected" => dmError = "Unknown device preset"
    /\ ~dmLaunched
    /\ \A i \in 1..Len(dmDevices) : dmDevices[i] # Undefined

C23_BaselineReplaced ==
  (wfPc = "settled" /\ wf = "updateBaseline" /\ ~wfError) =>
    /\ \A i \in 1..Len(screenshots) :
         /\ FileAt(files, "baseline", screenshots[i]) =
              {[dir |-> "baseline", name |-> screenshots[i], pixels |-> "new",
                by |-> csCall]}
         /\ FileAt(files, "out", screenshots[i]) = {}
    /\ \A f \in OldBaselines :
         (\A i \in 1..Len(screenshots) : screenshots[i] # f.name) => f \in files

\* ------------------------------------------------------- file paths of two targets
\* two targets of one captureScreenshots call: their engines are those of the
\* multi-browser manager; the retry manager has the one browser
InitPaths ==
  /\ pImpl \in {"multi", "retry"}
  /\ pTargets \in {<<[name |-> n1, engine |-> e1], [name |-> n2, engine |-> e2]>> :
                     n1 \in TargetNames, n2 \in TargetNames,
                     e1 \in {"chromium"},
                     e2 \in (IF pImpl = "multi" THEN PoolEngines ELSE {"chromium"})}
  /\ pShots = <<>> /\ pMoved = <<>> /\ pLooked = <<>> /\ pPc = "start"
  /\ impl = "multi" /\ devices = <<>> /\ browserTypes = DefaultBrowserTypes
  /\ maxParallelBrowsers = DefaultMaxParallel
  /\ PoolInit /\ CaptureInit /\ IdleInit /\ FsIdle /\ DiffIdle /\ ReportIdle
  /\ CompareIdle /\ CliIdle /\ DmIdle /\ ToleranceIdle /\ BatchesIdle

NextPaths ==
  \/ PathsCapture
  \/ PathsUpdateBaseline
  \/ PathsCompare

SpecPaths == InitPaths /\ [][NextPaths]_vars

\* C31: for every record of the capture pipeline, the baseline path that
\* compareScreenshot looks up is the path updateBaseline moved the screenshot
\* of the same target to.
C31_BaselinePathAgreement ==
  (pPc = "compared" /\ pMoved # <<>>) =>
    \A i \in 1..Len(pLooked) : pLooked[i] = pMoved[i]

\* C39: within one captureScreenshots call, two targets that differ in device
\* name or in engine are written to different screenshot paths.
C39_DistinctTargetsDistinctFiles ==
  (pShots # <<>> /\ pTargets[1] # pTargets[2]) => pShots[1] # pShots[2]

\* ------------------------------------------------- the comparisons of an orchestrator
\* new PixelPerfect(config) with either DiffManager, and the compare() call of
\* a run on a list of screenshots
InitTolerance ==
  /\ impl = "multi" /\ devices = <<>> /\ browserTypes = DefaultBrowserTypes
  /\ maxParallelBrowsers = DefaultMaxParallel
  /\ PoolInit /\ CaptureInit /\ IdleInit /\ PathsIdle /\ FsIdle /\ ReportIdle
  /\ CliIdle /\ DmIdle /\ BatchesIdle
  /\ ppConfig \in PixelPerfectConfigs
  /\ dimpl \in {"basic", "smart"}
  /\ options = NewDiffManager(dimpl, ppConfig)
  /\ device = "" /\ filepath = NoPath
  /\ current = [width |-> 1, height |-> 1, px |-> [i \in {0} |-> 0]]
  /\ baseline = {}
  /\ aaPixels = {}
  /\ DiffStart
  /\ cmpScreenshots \in SeqsUpTo(CompareInputs, MaxCompare)
  /\ cmpPc = "idle" /\ cmpIdx = 0 /\ cmpDiffs = <<>>

SpecTolerance == InitTolerance /\ [][NextCompare]_vars

\* C32: in every comparison of a run, the threshold passed to pixelmatch is
\* the threshold the caller configured on the orchestrator (the default 0.1
\* when none was configured).
C32_ConfiguredThresholdReachesPixelmatch ==
  dPc = "metadata" =>
    PixelmatchArgs(dimpl, options).threshold =
      (IF ppConfig.asked = NotConfigured THEN DefaultPixelMatch ELSE ppConfig.asked)

\* C33: with all other inputs and options fixed, what is handed to pixelmatch
\* (its options and the two preprocessed images) differs between
\* ignoreTransparency = true and ignoreTransparency = false.
C33_IgnoreTransparencyControlsComparison ==
  (dimpl = "smart" /\ dPc = "metadata") =>
    LET flipped == [options EXCEPT !.ignoreTransparency = ~@]
    IN \/ PixelmatchArgs(dimpl, options) # PixelmatchArgs(dimpl, flipped)
       \/ PreprocessImage(current, options.ignoreColors)
            # PreprocessImage(current, flipped.ignoreColors)

\* C34: DeviceManager.initialize() leaves getDevices() unchanged: the same
\* profiles in the same order, none of them more often than before.
C34_InitializeLeavesDevicesUnchanged ==
  [][(dmPc = "constructed" /\ dmPc' = "initialized") => dmDevices' = dmDevices]_vars

\* C35: between an initialize and the next cleanup, the browser is asked for
\* at most one new context per (engine, device name) key, and every context
\* created is the one the cache holds under its key, also when several
\* createContext calls for one key are in flight together.
C35_NoDuplicateContexts ==
  cleanupPc = "idle" =>
    \A p \in Procs :
      LET key == ContextKey(TBrowser(p[2]), TDevice(p[2]))
      IN /\ tctx[p] = p => <<key, p>> \in contexts
         /\ tpc[p] = "newContext" =>
              \A q \in Procs \ {p} :
                (q[1] = p[1] /\ ContextKey(TBrowser(q[2]), TDevice(q[2])) = key) =>
                  (tpc[q] # "newContext" /\ tctx[q] # q)

\* C36: at the moment captureScreenshots returns or throws, none of the
\* captureScreenshot operations it started is still in flight.
C36_NoCaptureOutlivesCall ==
  csPc \in {"returned", "thrown"} =>
    \A p \in Procs : p[1] = csCall => ~InFlight(p)

\* C37: once the cleanup() of updateBaseline() has returned, the pool holds no
\* engine handle and no cached context, and this stays so until initialize is
\* called again by the next workflow, whatever was started before the cleanup
\* completes afterwards.
C37_CleanupIsFinal ==
  (wf = "updateBaseline" /\ wfPc = "settled") =>
    /\ browsers = <<>>
    /\ contexts = {}

\* ------------------------------------------------------------ createBatches, one call
\* createBatches(devices, this.maxParallelBrowsers) is entered with any device
\* list and any batch size; the loop runs as long as it can
InitBatches ==
  /\ impl = "multi" /\ devices = <<>> /\ browserTypes = DefaultBrowserTypes
  /\ maxParallelBrowsers = DefaultMaxParallel
  /\ PoolInit /\ CaptureInit /\ IdleInit /\ FsIdle /\ DiffIdle /\ ReportIdle
  /\ CompareIdle /\ CliIdle /\ DmIdle /\ PathsIdle /\ ToleranceIdle
  /\ bDevices \in DeviceLists
  /\ bSize \in BatchSizes
  /\ bI = 0 /\ bBatches = <<>> /\ bPc = "loop"

NextBatches ==
  \/ CreateBatchesStep
  \/ CreateBatchesReturn

SpecBatches == InitBatches /\ [][NextBatches]_vars /\ WF_vars(NextBatches)

\* C38: captureScreenshots' batching terminates for every device list and
\* every integer maxParallelBrowsers, zero and negative values included, and
\* for maxParallelBrowsers >= 1 the batches hold every device exactly once.
C38_BatchingTerminates ==
  /\ <>(bPc = "returned")
  /\ []((bPc = "returned" /\ bSize >= 1) =>
          \A d \in 1..Len(bDevices) :
            Cardinality({<<b, j>> \in (1..Len(bBatches)) \X (1..Len(bDevices)) :
                           j <= Len(bBatches[b]) /\ bBatches[b][j] = d}) = 1)
====
